---- MODULE Spec2Model ----
(***************************************************************************)
(* PlanYT: the day-wise planner of utils/planner.js, generateDayWisePlan,  *)
(* as a state machine that runs the function statement by statement.       *)
(*                                                                         *)
(* Numbers.  A JavaScript number is a record [tag, v]: a finite number     *)
(* ("num", v), NaN ("nan"), +Infinity ("inf", 1) or -Infinity ("inf", -1); *)
(* null is ("null", 0).  Finite numbers are counted in ticks of 0.005      *)
(* minute, so 0.01 minute is 2 ticks and one minute is 200 ticks.  The     *)
(* arithmetic on finite numbers is exact: the rounding of IEEE doubles is  *)
(* not modelled.                                                           *)
(***************************************************************************)
EXTENDS Integers, Sequences, FiniteSets

\* ---------------------------------------------------------------- bounds
MaxVideos == 3

\* ------------------------------------------------------------ JS numbers
Num(n) == [tag |-> "num", v |-> n]
NaN == [tag |-> "nan", v |-> 0]
PosInf == [tag |-> "inf", v |-> 1]
NegInf == [tag |-> "inf", v |-> -1]
Null == [tag |-> "null", v |-> 0]
Zero == Num(0)
Minutes(n) == Num(n * 200)

IsFinite(a) == a.tag = "num"

\* a < b of JavaScript: false as soon as one side is NaN
JsLt(a, b) ==
  /\ a.tag # "nan"
  /\ b.tag # "nan"
  /\ \/ a.tag = "num" /\ b.tag = "num" /\ a.v < b.v
     \/ a = NegInf /\ b # NegInf
     \/ b = PosInf /\ a # PosInf

JsGt(a, b) == JsLt(b, a)

JsLe(a, b) == a.tag # "nan" /\ b.tag # "nan" /\ (a = b \/ JsLt(a, b))

JsNeg(a) ==
  CASE a.tag = "num" -> Num(0 - a.v)
    [] a.tag = "inf" -> [tag |-> "inf", v |-> 0 - a.v]
    [] OTHER -> NaN

JsAdd(a, b) ==
  CASE a.tag = "nan" \/ b.tag = "nan" -> NaN
    [] a.tag = "num" /\ b.tag = "num" -> Num(a.v + b.v)
    [] a.tag = "inf" /\ b.tag = "inf" -> IF a = b THEN a ELSE NaN
    [] a.tag = "inf" -> a
    [] OTHER -> b

JsSub(a, b) == JsAdd(a, JsNeg(b))

\* Math.min: NaN as soon as one argument is NaN
MathMin(a, b) ==
  IF a.tag = "nan" \/ b.tag = "nan" THEN NaN
  ELSE IF JsLt(b, a) THEN b ELSE a

\* !x for a number x: true for 0 and NaN
Falsy(a) == a.tag = "nan" \/ a = Zero

\* 0.01 minute, the tolerance of "day is full"
Eps == Num(2)

\* ------------------------------------------------------------- the state
VARIABLES
  videos,                 \* argument: [isNull, items], items a sequence of [id, durationMinutes]
  dailyWatchTimeMinutes,  \* argument: a JS number
  pc,                     \* "call", "for", "while", "tail", "done"
  plan,                   \* the days pushed so far, the return value at "done"
  currentDay,
  remainingDailyTime,
  currentDayVideos,
  currentDayTotalTime,
  i,                      \* index of the for loop, 0-based as in the code
  videoRemainingTime,
  videoStartTime,
  thrown                  \* the exception the call ended with, "none" if none

\* a second call of generateDayWisePlan on the same arguments, running at
\* the same time as the first: its locals, as one record
VARIABLES second

\* the backend function api/playlist-info.js: its module state, the clock
\* and the requests whose upstream fetch has not come back
VARIABLES
  now,          \* Date.now(), in ms
  rateLimits,   \* Map ip -> timestamps of the requests let through
  cache,        \* NodeCache: key -> [value, expires]
  apiKey,       \* process.env.YOUTUBE_API_KEY is set
  pending,      \* the requests suspended at "await fetchPlaylistData"
  requests,     \* number of requests received so far
  ticks,        \* number of clock steps so far
  accepted,     \* history: ip -> timestamps at which checkRateLimit returned true
  fetched,      \* history: the 200 answers that came from an upstream fetch
  response,     \* the last answer sent
  cacheRead     \* history: the last request got as far as cache.get

backendVars ==
  << now, rateLimits, cache, apiKey, pending, requests, ticks, accepted,
     fetched, response, cacheRead >>

\* the extension: chrome.storage.local, the popup (popup.js) and the overlay
\* (ui/overlay.js)
VARIABLES
  storage,      \* chrome.storage.local: [planData, playlistPlans]
  queue,        \* the storage calls of the popup not yet carried out, oldest first
  appState,     \* popup.js appState, and whether the popup has finished loading
  page,         \* how many times the popup page was loaded
  state,        \* PlanYTOverlay.state
  planIds,      \* number of plan ids generated so far
  expected,     \* history: the popup's plan with the flags last set
  overlapped,   \* history: a save was started before an earlier one finished
  reset         \* history: [phase, shown] of the last confirmed Reset

uiVars ==
  << storage, queue, appState, page, state, planIds, expected, overlapped,
     reset >>

\* the overlay's own scheduler, generateWatchPlan of ui/overlay.js, called on
\* the arguments of the planner: its locals, as one record
VARIABLES gen

\* utils/api.js, fetchPlaylistData of the extension: the call in progress
VARIABLES client

\* the plan store of ui/overlay.js and utils/plans.js
VARIABLES
  calls,        \* the store functions suspended at "await savePlansData"
  finished,     \* history: the store functions that have returned
  updated,      \* history: the last updatePlanData of handleDayCompletion:
                \* the id, and whether the days were those of that plan
  deleted       \* history: [phase, id] of the last handlePlanDelete

\* the plan store functions called on their own
storeVars == << calls, finished >>

\* what the overlay's handlers record
overlayHist == << updated, deleted >>

extensionVars == << gen, client, storeVars, overlayHist >>

\* the parts of the repository other than the planner
components == << backendVars, uiVars, extensionVars >>

\* what a step of the first call leaves alone
others == << second, components >>

vars ==
  << videos, dailyWatchTimeMinutes, pc, plan, currentDay, remainingDailyTime,
     currentDayVideos, currentDayTotalTime, i, videoRemainingTime,
     videoStartTime, thrown, others >>

plannerVars ==
  << videos, dailyWatchTimeMinutes, pc, plan, currentDay, remainingDailyTime,
     currentDayVideos, currentDayTotalTime, i, videoRemainingTime,
     videoStartTime, thrown >>

locals ==
  << currentDay, remainingDailyTime, currentDayVideos, currentDayTotalTime, i,
     videoRemainingTime, videoStartTime >>

args == << videos, dailyWatchTimeMinutes >>

\* ------------------------------------------------------------ the inputs
\* durations and capacities of a few ticks, around the 0.01 tolerance,
\* with the values a caller can pass by mistake
FineDurations == { Num(0), Num(1), Num(3), Num(7), Num(-1), NaN, PosInf }
FineCapacities == { Num(2), Num(3), Num(4), Num(0), Num(-1), NaN, PosInf, NegInf }

\* whole minutes, the durations of the documented examples
MinuteDurations ==
  { Minutes(0), Minutes(10), Minutes(15), Minutes(20), Minutes(25), Minutes(40) }
MinuteCapacities == { Minutes(10), Minutes(20), Minutes(30) }

RECURSIVE SeqsUpTo(_, _)
SeqsUpTo(S, n) ==
  IF n = 0 THEN { << >> }
  ELSE LET shorter == SeqsUpTo(S, n - 1)
       IN  shorter \cup { Append(s, x) : s \in { t \in shorter : Len(t) = n - 1 }, x \in S }

\* the items built from a sequence of durations: the id is the position
MkVideos(ds) == [k \in 1..Len(ds) |-> [id |-> k, durationMinutes |-> ds[k]]]

Inputs ==
  { << [isNull |-> FALSE, items |-> MkVideos(ds)], c >> :
      ds \in SeqsUpTo(FineDurations, MaxVideos), c \in FineCapacities }
  \cup
  { << [isNull |-> FALSE, items |-> MkVideos(ds)], c >> :
      ds \in SeqsUpTo(MinuteDurations, MaxVideos), c \in MinuteCapacities }
  \cup
  { << [isNull |-> TRUE, items |-> << >>], c >> : c \in FineCapacities }

\* the locals of a call that has not run its first statement
RunInit ==
  [ pc |-> "call", plan |-> << >>, currentDay |-> 1, remainingDailyTime |-> Zero,
    currentDayVideos |-> << >>, currentDayTotalTime |-> Zero, i |-> 0,
    videoRemainingTime |-> Zero, videoStartTime |-> Zero ]

\* more days than a call on finite inputs closes; only a call that never
\* ends (an item of infinite duration) is stopped by it
MaxDays == 20

\* ------------------------------------------- api/playlist-info.js: state
Ips == { "ip1", "ip2" }

\* undefined
Undefined == [kind |-> "undefined"]

\* the JSON body of an answer
Body(name) == [kind |-> "object", name |-> name]

\* a Map with no entry
EmptyMap == [k \in {} |-> << >>]

NoAnswer ==
  [id |-> 0, arrived |-> 0, status |-> 0, body |-> Undefined,
   playlistId |-> Undefined, fetch |-> FALSE]

\* lines 435-439: the module state when the function instance starts
BackendStart ==
  /\ now = 0
  /\ rateLimits = EmptyMap
  /\ cache = EmptyMap
  /\ pending = {}
  /\ requests = 0
  /\ ticks = 0
  /\ accepted = [ip \in Ips |-> << >>]
  /\ fetched = {}
  /\ response = NoAnswer
  /\ cacheRead = FALSE

\* the backend receives no request
BackendIdle ==
  /\ BackendStart
  /\ apiKey = FALSE

\* ------------------------------------------------- the extension: state
\* chrome.storage.local with nothing stored
EmptyStorage == [planData |-> Undefined, playlistPlans |-> Undefined]

\* popup.js lines 36-42: appState when the page is loaded
AppStateInitial ==
  [loaded |-> FALSE, playlistData |-> Undefined, plan |-> << >>,
   dailyWatchTime |-> 0]

\* null as a plan id
NullId == 0

\* overlay.js lines 316-325: this.state of a new overlay
StateInitial ==
  [playlistData |-> Undefined, videos |-> << >>, plan |-> << >>,
   currentPlanId |-> NullId, dailyWatchTime |-> 0, plansCache |-> << >>]

\* a field that is not there: undefined where a number is read
Undef == [tag |-> "undefined", v |-> 0]

\* overlay.js lines 214-217: the locals of a call of generateWatchPlan that
\* has not run its first statement
GenInit ==
  [ pc |-> "call", plan |-> << >>, currentDay |-> 1, currentDayVideos |-> << >>,
    currentDayTime |-> Zero, i |-> 0, remainingTime |-> Zero,
    partStartTime |-> Zero ]

\* api.js: no call of fetchPlaylistData was made
ClientIdle ==
  [ pc |-> "idle", playlistId |-> Undefined, next |-> 1, contacted |-> << >>,
    outcomes |-> << >>, lastError |-> Null, result |-> Undefined ]

\* handleDayCompletion has not called updatePlanData
NoUpdate == [id |-> NullId, own |-> TRUE]

\* no plan was deleted
NoDelete == [phase |-> "none", id |-> NullId]

\* the extension's functions are not running
ExtensionStart ==
  /\ gen = GenInit
  /\ client = ClientIdle
  /\ calls = {}
  /\ finished = << >>
  /\ updated = NoUpdate
  /\ deleted = NoDelete

\* a browser in which the extension was just installed; the popup is open
\* and has loaded
UiStart ==
  /\ ExtensionStart
  /\ storage = EmptyStorage
  /\ queue = << >>
  /\ appState = [AppStateInitial EXCEPT !.loaded = TRUE]
  /\ page = 1
  /\ state = StateInitial
  /\ planIds = 0
  /\ expected = << >>
  /\ overlapped = FALSE
  /\ reset = [phase |-> "none", shown |-> << >>]

ComponentsIdle == BackendIdle /\ UiStart

Init ==
  /\ \E in \in Inputs : videos = in[1] /\ dailyWatchTimeMinutes = in[2]
  /\ pc = "call"
  /\ plan = << >>
  /\ currentDay = 1
  /\ remainingDailyTime = Zero
  /\ currentDayVideos = << >>
  /\ currentDayTotalTime = Zero
  /\ i = 0
  /\ videoRemainingTime = Zero
  /\ videoStartTime = Zero
  /\ thrown = "none"
  /\ second = RunInit
  /\ ComponentsIdle

\* --------------------------------------------------- generateDayWisePlan
\* line 22
NoVideos(vs) == vs.isNull \/ Len(vs.items) = 0

\* a guard that forgets the sign of the daily time
BadDailyTime_NoSign(c) == Falsy(c)

\* line 23
BadDailyTime(c) == Falsy(c) \/ JsLe(c, Zero)

\* lines 22-23: the two early returns

ReturnEmpty ==
  /\ pc = "call"
  /\ NoVideos(videos) \/ BadDailyTime(dailyWatchTimeMinutes)
  /\ pc' = "done"
  /\ plan' = << >>
  /\ UNCHANGED << args, locals, thrown, others >>

\* lines 25-29
Begin ==
  /\ pc = "call"
  /\ ~ (NoVideos(videos) \/ BadDailyTime(dailyWatchTimeMinutes))
  /\ plan' = << >>
  /\ currentDay' = 1
  /\ remainingDailyTime' = dailyWatchTimeMinutes
  /\ currentDayVideos' = << >>
  /\ currentDayTotalTime' = Zero
  /\ i' = 0
  /\ pc' = "for"
  /\ UNCHANGED << args, videoRemainingTime, videoStartTime, thrown, others >>

\* lines 31-34: the head of the for loop with the next video
ForNext ==
  /\ pc = "for"
  /\ i < Len(videos.items)
  /\ videoRemainingTime' = videos.items[i + 1].durationMinutes
  /\ videoStartTime' = Zero
  /\ pc' = "while"
  /\ UNCHANGED << args, plan, currentDay, remainingDailyTime, currentDayVideos,
                  currentDayTotalTime, i, thrown, others >>

\* line 31: the for loop is over
ForExit ==
  /\ pc = "for"
  /\ ~ (i < Len(videos.items))
  /\ pc' = "tail"
  /\ UNCHANGED << args, plan, locals, thrown, others >>

\* a loop that stops at the tolerance instead of at zero
WhileCond_Eps(rem) == JsGt(rem, Eps)

\* line 37
WhileCond(rem) == JsGt(rem, Zero)

\* the video watched whole, whatever is left of the day
TimeToWatch_NoSplit(rem, daily) == rem

\* the day's remainder read from one variable shared by all calls
TimeToWatch_SharedDay(rem, daily) == MathMin(rem, remainingDailyTime)

\* line 38
TimeToWatch(rem, daily) == MathMin(rem, daily)

\* the end offset counted from the start of the segment, not of the video
VideoEndTime_NoStart(start, timeToWatch) == timeToWatch

\* line 39
VideoEndTime(start, timeToWatch) == JsAdd(start, timeToWatch)

\* lines 45-46: the offsets as stored, null for "from the beginning" / "to the end"
StoredStart(start) == IF JsGt(start, Zero) THEN start ELSE Null
StoredEnd(end, dur) == IF JsLt(end, dur) THEN end ELSE Null

\* a segment flagged by its end alone
IsPartial_EndOnly(start, end, dur) == JsLt(end, dur)

\* line 48
IsPartial(start, end, dur) == JsGt(start, Zero) \/ JsLt(end, dur)

\* lines 42-49
Segment(video, start, end, timeToWatch) ==
  [ id |-> video.id,
    startTime |-> StoredStart(start),
    endTime |-> StoredEnd(end, video.durationMinutes),
    duration |-> timeToWatch,
    isPartial |-> IsPartial(start, end, video.durationMinutes) ]

\* a day closed after every finished video
DayIsOver_EveryVideo(daily, rem, idx, n) == JsLe(daily, Eps) \/ JsLe(rem, Zero)

\* a day closed only when nothing at all is left of it
DayIsOver_NoTolerance(daily, rem, idx, n) ==
  JsLe(daily, Zero) \/ (JsLe(rem, Zero) /\ idx = n - 1)

\* line 57
DayIsOver(daily, rem, idx, n) ==
  JsLe(daily, Eps) \/ (JsLe(rem, Zero) /\ idx = n - 1)

\* a remainder that is never reduced
RemainingAfter_Forgotten(rem, timeToWatch) == rem

\* line 53
RemainingAfter(rem, timeToWatch) == JsSub(rem, timeToWatch)

\* a day counter that is never advanced
NextDay_Same(n) == n

\* line 66
NextDay(n) == n + 1

\* lines 58-63 and 76-81
Day(n, segs, total) ==
  [day |-> n, videos |-> segs, totalTime |-> total, completed |-> FALSE]

\* lines 37-70: one iteration of the while loop
WhileBody ==
  /\ pc = "while"
  /\ WhileCond(videoRemainingTime)
  /\ Len(plan) < MaxDays
  /\ LET video == videos.items[i + 1]
         timeToWatch == TimeToWatch(videoRemainingTime, remainingDailyTime)
         videoEndTime == VideoEndTime(videoStartTime, timeToWatch)
         dayVideos == Append(currentDayVideos,
                             Segment(video, videoStartTime, videoEndTime, timeToWatch))
         dayTotal == JsAdd(currentDayTotalTime, timeToWatch)
         daily == JsSub(remainingDailyTime, timeToWatch)
         rem == RemainingAfter(videoRemainingTime, timeToWatch)
     IN  /\ videoRemainingTime' = rem
         /\ videoStartTime' = videoEndTime
         /\ IF DayIsOver(daily, rem, i, Len(videos.items))
            THEN /\ plan' = Append(plan, Day(currentDay, dayVideos, dayTotal))
                 /\ currentDay' = NextDay(currentDay)
                 /\ remainingDailyTime' = dailyWatchTimeMinutes
                 /\ currentDayVideos' = << >>
                 /\ currentDayTotalTime' = Zero
            ELSE /\ plan' = plan
                 /\ currentDay' = currentDay
                 /\ remainingDailyTime' = daily
                 /\ currentDayVideos' = dayVideos
                 /\ currentDayTotalTime' = dayTotal
  /\ UNCHANGED << args, pc, i, thrown, others >>

\* lines 37 and 31: the while loop is over, i++
WhileExit ==
  /\ pc = "while"
  /\ ~ WhileCond(videoRemainingTime)
  /\ i' = i + 1
  /\ pc' = "for"
  /\ UNCHANGED << args, plan, currentDay, remainingDailyTime, currentDayVideos,
                  currentDayTotalTime, videoRemainingTime, videoStartTime, thrown, others >>

\* a last day pushed whether or not it holds a segment
Return_AlwaysPush ==
  /\ pc = "tail"
  /\ plan' = Append(plan, Day(currentDay, currentDayVideos, currentDayTotalTime))
  /\ pc' = "done"
  /\ UNCHANGED << args, locals, thrown, others >>

\* lines 75-84: the remaining partial day, and the return
Return ==
  /\ pc = "tail"
  /\ plan' = IF Len(currentDayVideos) > 0
             THEN Append(plan, Day(currentDay, currentDayVideos, currentDayTotalTime))
             ELSE plan
  /\ pc' = "done"
  /\ UNCHANGED << args, locals, thrown, others >>

Next ==
  \/ ReturnEmpty
  \/ Begin
  \/ ForNext
  \/ ForExit
  \/ WhileBody
  \/ WhileExit
  \/ Return

Spec == Init /\ [][Next]_vars

\* ------------------------------------------- two calls at the same time
\* the statement of generateDayWisePlan that a call with locals r runs next,
\* on the arguments videos and dailyWatchTimeMinutes: the same seven steps
RunStep(r) ==
  CASE r.pc = "call" ->
         IF NoVideos(videos) \/ BadDailyTime(dailyWatchTimeMinutes)
         THEN [r EXCEPT !.pc = "done", !.plan = << >>]
         ELSE [r EXCEPT !.pc = "for", !.plan = << >>, !.currentDay = 1,
                        !.remainingDailyTime = dailyWatchTimeMinutes,
                        !.currentDayVideos = << >>,
                        !.currentDayTotalTime = Zero, !.i = 0]
    [] r.pc = "for" ->
         IF r.i < Len(videos.items)
         THEN [r EXCEPT !.pc = "while",
                        !.videoRemainingTime = videos.items[r.i + 1].durationMinutes,
                        !.videoStartTime = Zero]
         ELSE [r EXCEPT !.pc = "tail"]
    [] r.pc = "while" ->
         IF WhileCond(r.videoRemainingTime)
         THEN LET video == videos.items[r.i + 1]
                  timeToWatch == TimeToWatch(r.videoRemainingTime, r.remainingDailyTime)
                  videoEndTime == VideoEndTime(r.videoStartTime, timeToWatch)
                  dayVideos == Append(r.currentDayVideos,
                                      Segment(video, r.videoStartTime, videoEndTime,
                                              timeToWatch))
                  dayTotal == JsAdd(r.currentDayTotalTime, timeToWatch)
                  daily == JsSub(r.remainingDailyTime, timeToWatch)
                  rem == RemainingAfter(r.videoRemainingTime, timeToWatch)
              IN  IF DayIsOver(daily, rem, r.i, Len(videos.items))
                  THEN [r EXCEPT !.videoRemainingTime = rem,
                                 !.videoStartTime = videoEndTime,
                                 !.plan = Append(r.plan, Day(r.currentDay, dayVideos, dayTotal)),
                                 !.currentDay = NextDay(r.currentDay),
                                 !.remainingDailyTime = dailyWatchTimeMinutes,
                                 !.currentDayVideos = << >>,
                                 !.currentDayTotalTime = Zero]
                  ELSE [r EXCEPT !.videoRemainingTime = rem,
                                 !.videoStartTime = videoEndTime,
                                 !.remainingDailyTime = daily,
                                 !.currentDayVideos = dayVideos,
                                 !.currentDayTotalTime = dayTotal]
         ELSE [r EXCEPT !.pc = "for", !.i = r.i + 1]
    [] r.pc = "tail" ->
         [r EXCEPT !.pc = "done",
                   !.plan = IF Len(r.currentDayVideos) > 0
                            THEN Append(r.plan, Day(r.currentDay, r.currentDayVideos,
                                                    r.currentDayTotalTime))
                            ELSE r.plan]
    [] OTHER -> r

\* the call has a statement to run (a call that never ends is stopped at MaxDays)
RunEnabled(r) ==
  /\ r.pc # "done"
  /\ ~ (r.pc = "while" /\ WhileCond(r.videoRemainingTime) /\ Len(r.plan) >= MaxDays)

\* a statement of the second call
SecondStep ==
  /\ RunEnabled(second)
  /\ second' = RunStep(second)
  /\ UNCHANGED << plannerVars, components >>

\* the two calls are given lists of at most this many items
MaxVideosTwo == 2

InitTwo ==
  /\ Init
  /\ videos.isNull \/ Len(videos.items) <= MaxVideosTwo

NextTwo ==
  \/ ReturnEmpty
  \/ Begin
  \/ ForNext
  \/ ForExit
  \/ WhileBody
  \/ WhileExit
  \/ Return
  \/ SecondStep

\* the statements of the two calls interleave in every order
SpecTwo == InitTwo /\ [][NextTwo]_vars

\* the call is synchronous: a statement that can run does run
FairSpec == Spec /\ WF_vars(Next)

\* ------------------------------------- ui/overlay.js: generateWatchPlan
\* the items as the overlay holds them (lines 657-660): the time is in the
\* field duration
WatchVideos(vs) ==
  [ isNull |-> vs.isNull,
    items |-> [k \in DOMAIN vs.items |->
                 [id |-> vs.items[k].id, duration |-> vs.items[k].durationMinutes]] ]

\* lines 224-227: the item as it is, isPartial: false
WholeSegment(video) ==
  [ id |-> video.id, isPartial |-> FALSE, startTime |-> Undef,
    endTime |-> Undef, duration |-> video.duration ]

\* lines 233-239, 258-264, 272-278: a part of the item, isPartial: true
PartSegment(video, start, end, dur) ==
  [ id |-> video.id, isPartial |-> TRUE, startTime |-> start, endTime |-> end,
    duration |-> dur ]

\* line 223
FitsToday(dayTime, videoDuration, daily) == JsLe(JsAdd(dayTime, videoDuration), daily)

\* lines 243-252 and 281-290: the day is pushed and a new one is opened
PushDay(r, segs, total) ==
  [r EXCEPT !.plan = Append(r.plan, Day(r.currentDay, segs, total)),
            !.currentDay = r.currentDay + 1,
            !.currentDayVideos = << >>,
            !.currentDayTime = Zero]

\* lines 220-295 without the while loop: the item that does not fit today
SplitVideo(r, video, daily) ==
  LET remainingTime == JsSub(daily, r.currentDayTime)
      first == JsGt(remainingTime, Zero)
      segs == IF first
              THEN Append(r.currentDayVideos,
                          PartSegment(video, Zero, remainingTime, remainingTime))
              ELSE r.currentDayVideos
      total == IF first THEN JsAdd(r.currentDayTime, remainingTime)
               ELSE r.currentDayTime
      pushed == [PushDay(r, segs, total) EXCEPT !.remainingTime = remainingTime]
      videoRemaining == JsSub(video.duration, remainingTime)
  IN  IF ~ JsGt(videoRemaining, Zero)
      THEN [pushed EXCEPT !.i = r.i + 1]
      ELSE IF JsLe(videoRemaining, daily)
      THEN [pushed EXCEPT
              !.currentDayVideos =
                 << PartSegment(video, remainingTime, video.duration, videoRemaining) >>,
              !.currentDayTime = JsAdd(Zero, videoRemaining),
              !.i = r.i + 1]
      ELSE [pushed EXCEPT !.partStartTime = remainingTime, !.pc = "while"]

\* lines 269-292: one pass of the while loop
PartOfVideo(r, video, daily) ==
  LET partDuration == MathMin(daily, JsSub(video.duration, r.partStartTime))
      seg == PartSegment(video, r.partStartTime,
                         JsAdd(r.partStartTime, partDuration), partDuration)
  IN  [PushDay(r, Append(r.currentDayVideos, seg),
               JsAdd(r.currentDayTime, partDuration))
         EXCEPT !.partStartTime = JsAdd(r.partStartTime, partDuration)]

\* the statement of generateWatchPlan(vs, daily) that a call with locals r
\* runs next
GenStep(r, vs, daily) ==
  CASE r.pc = "call" ->
         \* lines 210-217
         IF NoVideos(vs) THEN [r EXCEPT !.pc = "done", !.plan = << >>]
         ELSE [GenInit EXCEPT !.pc = "for"]
    [] r.pc = "for" ->
         \* lines 219-229
         IF r.i < Len(vs.items)
         THEN LET video == vs.items[r.i + 1]
              IN  IF FitsToday(r.currentDayTime, video.duration, daily)
                  THEN [r EXCEPT
                          !.currentDayVideos = Append(@, WholeSegment(video)),
                          !.currentDayTime = JsAdd(@, video.duration),
                          !.i = r.i + 1]
                  ELSE SplitVideo(r, video, daily)
         ELSE [r EXCEPT !.pc = "tail"]
    [] r.pc = "while" ->
         \* line 269
         IF JsLt(r.partStartTime, vs.items[r.i + 1].duration)
         THEN PartOfVideo(r, vs.items[r.i + 1], daily)
         ELSE [r EXCEPT !.pc = "for", !.i = r.i + 1]
    [] r.pc = "tail" ->
         \* lines 298-307
         [r EXCEPT !.pc = "done",
                   !.plan = IF Len(r.currentDayVideos) > 0
                            THEN Append(r.plan, Day(r.currentDay, r.currentDayVideos,
                                                    r.currentDayTime))
                            ELSE r.plan]
    [] OTHER -> r

\* the call has a statement to run (a call that never ends is stopped at MaxDays)
GenEnabled(r) == r.pc # "done" /\ Len(r.plan) < MaxDays

\* the days generateWatchPlan(vs, daily) returns, for a call that returns
RECURSIVE GenRun(_, _, _)
GenRun(r, vs, daily) ==
  IF r.pc = "done" THEN r.plan ELSE GenRun(GenStep(r, vs, daily), vs, daily)

GenerateWatchPlan(vs, daily) == GenRun(GenInit, vs, daily)

\* a statement of generateWatchPlan, called with the arguments the planner
\* was called with once the planner has returned
WatchStep ==
  /\ pc = "done"
  /\ GenEnabled(gen)
  /\ gen' = GenStep(gen, WatchVideos(videos), dailyWatchTimeMinutes)
  /\ UNCHANGED << plannerVars, second, backendVars, uiVars, client, storeVars,
                  overlayHist >>

NextWatch ==
  \/ ReturnEmpty
  \/ Begin
  \/ ForNext
  \/ ForExit
  \/ WhileBody
  \/ WhileExit
  \/ Return
  \/ WatchStep

\* the two schedulers, one after the other on the same arguments
SpecWatch == Init /\ [][NextWatch]_vars

\* both are synchronous: a statement that can run does run
FairSpecWatch == SpecWatch /\ WF_vars(NextWatch)

\* ------------------------------------------------ api/playlist-info.js
\* line 439
MAX_REQUESTS_PER_MINUTE == 10

\* line 529: the window of the rate limit, in ms
WindowMs == 60000

\* line 435: stdTTL, in seconds
StdTTL == 3600

\* Map.get(k) || []
MapGet(m, k) == IF k \in DOMAIN m THEN m[k] ELSE << >>

\* Map.set(k, v)
MapSet(m, k, v) == [x \in DOMAIN m \cup {k} |-> IF x = k THEN v ELSE m[x]]

\* lines 535, 559: requests.filter(timestamp => timestamp > windowStart)
InWindow(timestamps, windowStart) ==
  LET keep(t) == t > windowStart IN SelectSeq(timestamps, keep)

\* a limit that lets one request more through
LimitExceeded_OneMore(reqs) == Len(reqs) > MAX_REQUESTS_PER_MINUTE

\* line 538
LimitExceeded(reqs) == Len(reqs) >= MAX_REQUESTS_PER_MINUTE

\* lines 557-566: cleanupRateLimits
CleanupRateLimits(m, windowStart) ==
  LET active == { ip \in DOMAIN m : InWindow(m[ip], windowStart) # << >> }
  IN  [ip \in active |-> InWindow(m[ip], windowStart)]

\* lines 528-549: the Map after a request of ip was let through; cleanup is
\* the outcome of Math.random() < 0.01
RateLimitsAfter(m, ip, t, cleanup) ==
  LET windowStart == t - WindowMs
      stored == MapSet(m, ip, Append(InWindow(MapGet(m, ip), windowStart), t))
  IN  IF cleanup THEN CleanupRateLimits(stored, windowStart) ELSE stored

\* playlist ids: a name, a length and whether all characters are in
\* [a-zA-Z0-9_-]; the empty string has length 0
Id(name, len, wordChars) ==
  [kind |-> "string", name |-> name, len |-> len, wordChars |-> wordChars]

PlaylistIds ==
  { Id("p", 11, TRUE), Id("q", 99, TRUE), Id("short", 10, TRUE),
    Id("long", 100, TRUE), Id("bad", 34, FALSE), Id("empty", 0, TRUE) }

\* !playlistId
NoPlaylistId(id) == id = Undefined \/ id.len = 0

\* a format test without the lower limit of the length
IsValidPlaylistId_NoLowerLimit(id) ==
  /\ id.wordChars
  /\ id.len > 0
  /\ id.len < 100

\* lines 520-522; the + of the pattern needs one character at least
IsValidPlaylistId(id) ==
  /\ id.wordChars
  /\ id.len > 0
  /\ id.len > 10
  /\ id.len < 100

\* requests: the method, the x-forwarded-for header, the address of the
\* connection, and the playlistId of the body and of the query
Requests ==
  { r \in [method : { "OPTIONS", "GET", "POST" },
           forwardedFor : { "", "ip1" },
           remoteAddress : { "ip2" },
           body : PlaylistIds \cup { Undefined },
           query : PlaylistIds \cup { Undefined }] :
      /\ r.body = Undefined \/ r.query = Undefined
      /\ r.method = "OPTIONS" => r.body = Undefined /\ r.query = Undefined
      /\ r.method = "GET" => r.body \in { Undefined, Id("p", 11, TRUE) }
      /\ r.method = "POST" => r.query \in { Undefined, Id("p", 11, TRUE) } }

\* line 454
ClientIp(req) ==
  IF req.forwardedFor # "" THEN req.forwardedFor ELSE req.remoteAddress

\* lines 462-464
PlaylistIdOf(req) == IF req.method = "POST" THEN req.body ELSE req.query

\* NodeCache.get: the value of a key that is stored and not expired
CacheGet(c, key, t) ==
  IF key \in DOMAIN c /\ c[key].expires >= t THEN c[key].value ELSE Undefined

\* NodeCache.set with the stdTTL of line 435
CacheSet(c, key, value, t) ==
  MapSet(c, key, [value |-> value, expires |-> t + StdTTL * 1000])

Answer(id, arrived, status, body, playlistId, fetch) ==
  [id |-> id, arrived |-> arrived, status |-> status, body |-> body,
   playlistId |-> playlistId, fetch |-> fetch]

\* lines 446-498: the handler, from the request to its answer or to the
\* await of line 498
Handle(req) ==
  LET id == requests + 1
      ip == ClientIp(req)
      playlistId == PlaylistIdOf(req)
      reqs == InWindow(MapGet(rateLimits, ip), now - WindowMs)
  IN
  /\ requests' = id
  /\ UNCHANGED << now, apiKey, ticks, fetched, cache >>
  /\ cacheRead' = /\ req.method # "OPTIONS"
                  /\ ~ LimitExceeded(reqs)
                  /\ ~ NoPlaylistId(playlistId)
                  /\ IsValidPlaylistId(playlistId)
  /\ IF req.method = "OPTIONS"
     THEN /\ response' = Answer(id, now, 200, Body("ok"), Undefined, FALSE)
          /\ UNCHANGED << rateLimits, accepted, pending >>
     ELSE IF LimitExceeded(reqs)
     THEN /\ response' = Answer(id, now, 429, Body("error"), Undefined, FALSE)
          /\ UNCHANGED << rateLimits, accepted, pending >>
     ELSE
       /\ \E cleanup \in BOOLEAN :
            rateLimits' = RateLimitsAfter(rateLimits, ip, now, cleanup)
       /\ accepted' = [accepted EXCEPT ![ip] = Append(@, now)]
       /\ IF NoPlaylistId(playlistId)
          THEN /\ response' = Answer(id, now, 400, Body("error"), Undefined, FALSE)
               /\ UNCHANGED pending
          ELSE IF ~ IsValidPlaylistId(playlistId)
          THEN /\ response' = Answer(id, now, 400, Body("error"), Undefined, FALSE)
               /\ UNCHANGED pending
          ELSE IF CacheGet(cache, playlistId.name, now) # Undefined
          THEN /\ response' = Answer(id, now, 200,
                                     CacheGet(cache, playlistId.name, now),
                                     playlistId, FALSE)
               /\ UNCHANGED pending
          ELSE IF ~ apiKey
          THEN /\ response' = Answer(id, now, 500, Body("error"), playlistId, FALSE)
               /\ UNCHANGED pending
          ELSE /\ pending' = pending \cup
                    { [id |-> id, arrived |-> now, playlistId |-> playlistId] }
               /\ UNCHANGED response

\* the playlist data YouTube may answer with
Bodies == { Body("v1"), Body("v2") }

\* the statuses a failed fetch carries (lines 590-593, 599, 608, 746)
FailStatuses == { 400, 404, 500 }

\* lines 498-504: fetchPlaylistData has returned
FetchOk ==
  \E f \in pending, playlistData \in Bodies :
    /\ pending' = pending \ { f }
    /\ cache' = CacheSet(cache, f.playlistId.name, playlistData, now)
    /\ response' = Answer(f.id, f.arrived, 200, playlistData,
                          f.playlistId, TRUE)
    /\ fetched' = fetched \cup
         { [playlistId |-> f.playlistId, body |-> playlistData, at |-> now,
            upto |-> requests] }
    /\ UNCHANGED << now, rateLimits, apiKey, requests, ticks, accepted,
                    cacheRead >>

\* lines 506-514: fetchPlaylistData has thrown
FetchFail ==
  \E f \in pending, status \in FailStatuses :
    /\ pending' = pending \ { f }
    /\ response' = Answer(f.id, f.arrived, status, Body("error"),
                          f.playlistId, TRUE)
    /\ UNCHANGED << now, rateLimits, cache, apiKey, requests, ticks,
                    accepted, fetched, cacheRead >>

\* time passes
Tick(ms) ==
  /\ now' = now + ms
  /\ ticks' = ticks + 1
  /\ UNCHANGED << rateLimits, cache, apiKey, pending, requests, accepted,
                  fetched, response, cacheRead >>

\* what a step of the backend leaves alone
notBackend == << plannerVars, second, uiVars, extensionVars >>

\* the planner is not running
PlannerIdle ==
  /\ videos = [isNull |-> TRUE, items |-> << >>]
  /\ dailyWatchTimeMinutes = Zero
  /\ pc = "call"
  /\ plan = << >>
  /\ currentDay = 1
  /\ remainingDailyTime = Zero
  /\ currentDayVideos = << >>
  /\ currentDayTotalTime = Zero
  /\ i = 0
  /\ videoRemainingTime = Zero
  /\ videoStartTime = Zero
  /\ thrown = "none"
  /\ second = RunInit
  /\ UiStart

\* --- the rate limit: many requests, the clock moves by half a window
MaxRateRequests == 11
MaxRateTicks == 2

HalfWindow == WindowMs \div 2

InitRate ==
  /\ PlannerIdle
  /\ BackendStart
  /\ apiKey = FALSE

\* the requests of the rate limit runs: preflights, and GET requests
\* without a playlist id, of two clients
RateRequests ==
  { r \in Requests :
      /\ r.method # "POST"
      /\ r.body = Undefined
      /\ r.query = Undefined }

RateRequest ==
  /\ requests < MaxRateRequests
  /\ \E req \in RateRequests : Handle(req)
  /\ UNCHANGED notBackend

RateTick ==
  /\ ticks < MaxRateTicks
  /\ Tick(HalfWindow)
  /\ UNCHANGED notBackend

NextRate ==
  \/ RateRequest
  \/ RateTick

SpecRate == InitRate /\ [][NextRate]_vars

\* --- the cache: few requests of one client, the clock moves by the time
\* to live of a cache entry
MaxRequests == 3
MaxTicks == 2

TTLMs == StdTTL * 1000

BackendRequests == { r \in Requests : r.forwardedFor = "" }

InitBackend ==
  /\ PlannerIdle
  /\ BackendStart
  /\ apiKey \in BOOLEAN

Request ==
  /\ requests < MaxRequests
  /\ \E req \in BackendRequests : Handle(req)
  /\ UNCHANGED notBackend

Fetched ==
  /\ FetchOk
  /\ UNCHANGED notBackend

FetchFailed ==
  /\ FetchFail
  /\ UNCHANGED notBackend

ClockTick ==
  /\ ticks < MaxTicks
  /\ Tick(TTLMs)
  /\ UNCHANGED notBackend

NextBackend ==
  \/ Request
  \/ Fetched
  \/ FetchFailed
  \/ ClockTick

SpecBackend == InitBackend /\ [][NextBackend]_vars

\* --- the validation: the requests of one client that follow nine
\* requests without a playlist id received in the first millisecond, so
\* that the limit of the client is reached by the second of them; the
\* environment variable is set or removed between two requests
PriorRequests == MAX_REQUESTS_PER_MINUTE - 1
MaxValidated == 2
MaxValidationTicks == 1

PriorTimestamps == [k \in 1..PriorRequests |-> 0]

InitValidation ==
  /\ PlannerIdle
  /\ now = 0
  /\ rateLimits = MapSet(EmptyMap, "ip2", PriorTimestamps)
  /\ cache = EmptyMap
  /\ apiKey \in BOOLEAN
  /\ pending = {}
  /\ requests = PriorRequests
  /\ ticks = 0
  /\ accepted = [ip \in Ips |-> IF ip = "ip2" THEN PriorTimestamps ELSE << >>]
  /\ fetched = {}
  /\ response = Answer(PriorRequests, 0, 400, Body("error"), Undefined, FALSE)
  /\ cacheRead = FALSE

Validate ==
  /\ requests < PriorRequests + MaxValidated
  /\ \E req \in BackendRequests : Handle(req)
  /\ UNCHANGED notBackend

\* the time to live of a cache entry passes, and with it the window of
\* the rate limit
ValidationTick ==
  /\ ticks < MaxValidationTicks
  /\ Tick(TTLMs)
  /\ UNCHANGED notBackend

\* line 488: process.env.YOUTUBE_API_KEY is read at each request
KeyChange ==
  /\ apiKey' = ~ apiKey
  /\ UNCHANGED << now, rateLimits, cache, pending, requests, ticks, accepted,
                  fetched, response, cacheRead >>
  /\ UNCHANGED notBackend

NextValidation ==
  \/ Validate
  \/ Fetched
  \/ FetchFailed
  \/ ValidationTick
  \/ KeyChange

SpecValidation == InitValidation /\ [][NextValidation]_vars

\* ------------------------------------------ utils/api.js of the extension
\* lines 9-12: production first, then localhost
BACKEND_API_URLS == << "production", "localhost" >>

\* what an endpoint does with a request: fetch rejects (no connection, or
\* the abort of line 42 after 8 s), or a response arrives with a status and
\* a body; the body is Undefined when it cannot be read as a JSON object
Rejected(kind) == [kind |-> kind, status |-> 0, body |-> Undefined]
Responded(status, body) == [kind |-> "response", status |-> status, body |-> body]

ErrorStatuses == { 400, 404, 429, 500 }

Outcomes ==
  { Rejected("network"), Rejected("timeout") }
  \cup { Responded(st, b) : st \in ErrorStatuses, b \in { Body("error"), Undefined } }
  \cup { Responded(200, b) : b \in Bodies \cup { Undefined } }

\* line 52: response.ok
ResponseOk(o) == o.kind = "response" /\ o.status >= 200 /\ o.status <= 299

\* an attempt that fails only when no response arrives
AttemptFailed_NoResponse(o) == o.kind # "response"

\* lines 44-62: the attempt ends in the catch of line 69: fetch has
\* rejected, the response is not ok, or response.json() has thrown
AttemptFailed(o) == o.kind # "response" \/ ~ ResponseOk(o) \/ o.body = Undefined

\* lines 35-48: fetchPlaylistData is called and contacts the first endpoint
ClientCall ==
  /\ client.pc = "idle"
  /\ \E playlistId \in PlaylistIds :
       client' = [ClientIdle EXCEPT !.pc = "await", !.playlistId = playlistId,
                                    !.next = 1, !.contacted = << 1 >>]
  /\ UNCHANGED << plannerVars, second, backendVars, uiVars, gen, storeVars,
                  overlayHist >>

\* lines 44-77: the endpoint contacted last has answered, or has not
ClientAnswer ==
  /\ client.pc = "await"
  /\ \E o \in Outcomes :
       LET seen == [client EXCEPT !.outcomes = Append(@, o)]
       IN  IF ~ AttemptFailed(o)
           THEN \* lines 62-68
                client' = [seen EXCEPT !.pc = "returned", !.result = o.body]
           ELSE IF client.next < Len(BACKEND_API_URLS)
           THEN \* lines 69-73, then 39-48 for the next endpoint
                client' = [seen EXCEPT !.lastError = o,
                                       !.next = client.next + 1,
                                       !.contacted = Append(@, client.next + 1)]
           ELSE \* lines 76-77
                client' = [seen EXCEPT !.lastError = o, !.pc = "thrown"]
  /\ UNCHANGED << plannerVars, second, backendVars, uiVars, gen, storeVars,
                  overlayHist >>

NextClient ==
  \/ ClientCall
  \/ ClientAnswer

\* no call of fetchPlaylistData has been made
InitClient ==
  /\ PlannerIdle
  /\ BackendIdle

SpecClient == InitClient /\ [][NextClient]_vars

\* ------------------------------------------------- reading a plan
Items == videos.items
NumItems == Len(Items)
Duration(k) == Items[k].durationMinutes

\* the items are all finite and >= 0, the capacity is finite and > 0
ValidItems ==
  /\ ~ videos.isNull
  /\ \A k \in 1..NumItems : IsFinite(Duration(k)) /\ Duration(k).v >= 0
ValidCapacity == IsFinite(dailyWatchTimeMinutes) /\ dailyWatchTimeMinutes.v > 0
ValidInput == ValidItems /\ NumItems > 0 /\ ValidCapacity

Returned == pc = "done"

\* the segments of all days, in day order
RECURSIVE AllSegments(_)
AllSegments(p) ==
  IF Len(p) = 0 THEN << >>
  ELSE AllSegments(SubSeq(p, 1, Len(p) - 1)) \o p[Len(p)].videos

\* the sum of the durations of a sequence of segments (finite ones)
RECURSIVE SumSegments(_)
SumSegments(segs) ==
  IF Len(segs) = 0 THEN 0
  ELSE SumSegments(SubSeq(segs, 1, Len(segs) - 1)) + segs[Len(segs)].duration.v

\* the sum of the durations of the first n items
RECURSIVE SumItems(_)
SumItems(n) == IF n = 0 THEN 0 ELSE SumItems(n - 1) + Duration(n).v

\* the offsets of a segment, null read as the code's comments say
StartOf(s) == IF s.startTime = Null THEN 0 ELSE s.startTime.v
EndOf(s) == IF s.endTime = Null THEN Duration(s.id).v ELSE s.endTime.v

\* some segment of the plan is a part of a split item
SomeSplit == \E a \in 1..Len(AllSegments(plan)) : AllSegments(plan)[a].isPartial

\* ---------------------------------------------------------------- claims

\* C1: conservation. For a non-empty item list with finite durations >= 0
\* and a positive finite capacity, the durations of all segments of all
\* returned days add up to the durations of all items.
C1_Conservation ==
  (Returned /\ ValidInput) =>
    SumSegments(AllSegments(plan)) = SumItems(NumItems)

\* a returned plan of several days with a split item and a residue of one tick
C1_Witness ==
  /\ Returned /\ ValidInput
  /\ Len(plan) >= 2
  /\ SomeSplit
  /\ \E k \in 1..NumItems : Duration(k) = Num(1)
  /\ SumSegments(AllSegments(plan)) = SumItems(NumItems)
  /\ SumItems(NumItems) >= 6

\* C2: order preservation and coverage. In the concatenation of the
\* segments of all days the items come in input order and the segments of
\* one item are contiguous; the first segment of an item starts at offset
\* 0, each next one starts where the previous one ended, and the last one
\* ends at durationMinutes; every item of positive duration is covered.
C2_OrderAndCoverage ==
  (Returned /\ ValidInput) =>
    LET segs == AllSegments(plan)
        n == Len(segs)
        First(a) == a = 1 \/ segs[a - 1].id # segs[a].id
        Last(a) == a = n \/ segs[a + 1].id # segs[a].id
    IN  /\ \A a \in 1..n : \A b \in a..n : segs[a].id <= segs[b].id
        /\ \A k \in 1..NumItems :
             Duration(k).v > 0 => \E a \in 1..n : segs[a].id = k
        /\ \A a \in 1..n :
             /\ First(a) => StartOf(segs[a]) = 0
             /\ Last(a) => StartOf(segs[a]) + segs[a].duration.v = Duration(segs[a].id).v
             /\ ~ Last(a) =>
                  /\ StartOf(segs[a + 1]) = StartOf(segs[a]) + segs[a].duration.v
                  /\ StartOf(segs[a + 1]) < Duration(segs[a].id).v
             /\ EndOf(segs[a]) = StartOf(segs[a]) + segs[a].duration.v

\* an item cut into three segments over three days, between two other items
C2_Witness ==
  /\ Returned /\ ValidInput
  /\ NumItems = 3
  /\ LET segs == AllSegments(plan)
     IN  /\ Cardinality({ a \in 1..Len(segs) : segs[a].id = 2 }) >= 3
         /\ \E a \in 1..Len(segs) : segs[a].id = 1
         /\ \E a \in 1..Len(segs) : segs[a].id = 3

\* C3: capacity bound. Every day pushed to the plan, the last one
\* included, has totalTime <= dailyWatchTimeMinutes + 0.01, and totalTime
\* is the sum of the durations of the day's segments.
C3_CapacityBound ==
  ValidItems =>
    \A d \in 1..Len(plan) :
      /\ JsLe(plan[d].totalTime, JsAdd(dailyWatchTimeMinutes, Eps))
      /\ plan[d].totalTime = Num(SumSegments(plan[d].videos))

\* a returned plan whose days are all full although an item exceeds the capacity
C3_Witness ==
  /\ Returned /\ ValidInput
  /\ Len(plan) >= 3
  /\ \E k \in 1..NumItems : JsGt(Duration(k), dailyWatchTimeMinutes)
  /\ \A d \in 1..Len(plan) : plan[d].totalTime = dailyWatchTimeMinutes

\* the days of the plan that hold a segment of item k
DaysOf(k) ==
  { d \in 1..Len(plan) : \E a \in 1..Len(plan[d].videos) : plan[d].videos[a].id = k }

\* C4: greedy fill. Every returned day but the final one is filled to the
\* capacity within the tolerance, and a day that holds a segment of an
\* item continued on the next day is filled to exactly the capacity; an
\* item longer than the capacity has one segment in each of two or more
\* consecutive days, all of them but possibly the last exactly full.
C4_GreedyFill ==
  (Returned /\ ValidInput) =>
    /\ \A d \in 1..Len(plan) :
         /\ d < Len(plan) =>
              JsLe(JsSub(dailyWatchTimeMinutes, Eps), plan[d].totalTime)
         /\ (\E a \in 1..Len(plan[d].videos) : plan[d].videos[a].endTime # Null) =>
              plan[d].totalTime = dailyWatchTimeMinutes
         /\ \A a, b \in 1..Len(plan[d].videos) :
              plan[d].videos[a].id = plan[d].videos[b].id => a = b
    /\ \A k \in 1..NumItems :
         JsGt(Duration(k), dailyWatchTimeMinutes) =>
           /\ Cardinality(DaysOf(k)) >= 2
           /\ \A d, e \in DaysOf(k) : \A f \in d..e : f \in DaysOf(k)
           /\ \A d \in DaysOf(k) :
                (d + 1) \in DaysOf(k) => plan[d].totalTime = dailyWatchTimeMinutes

\* an item longer than the capacity split over three days, after a day that
\* was closed one tick short of the capacity
C4_Witness ==
  /\ Returned /\ ValidInput
  /\ Len(plan) >= 4
  /\ JsLt(plan[1].totalTime, dailyWatchTimeMinutes)
  /\ JsLt(plan[4].totalTime, dailyWatchTimeMinutes)
  /\ \E k \in 1..NumItems :
       /\ JsGt(Duration(k), dailyWatchTimeMinutes)
       /\ DaysOf(k) = 2..4

\* the inputs of the documented examples: whole minutes, all positive
WholeMinutes(a) == IsFinite(a) /\ a.v > 0 /\ a.v % 200 = 0
IntegerInput ==
  /\ ~ videos.isNull
  /\ NumItems > 0
  /\ \A k \in 1..NumItems : WholeMinutes(Duration(k))
  /\ WholeMinutes(dailyWatchTimeMinutes)

DurationsAre(ds) ==
  /\ ~ videos.isNull
  /\ NumItems = Len(ds)
  /\ \A k \in 1..NumItems : Duration(k) = Minutes(ds[k])

\* where a segment starts on the timeline of all items laid end to end
GlobalStart(s) == SumItems(s.id - 1) + StartOf(s)

Smaller(a, b) == IF a < b THEN a ELSE b

\* the segment of `len` minutes of item k from `from` to `to`, 0 for null
Part(k, from, to, len) ==
  [ id |-> k,
    startTime |-> IF from = 0 THEN Null ELSE Minutes(from),
    endTime |-> IF to = 0 THEN Null ELSE Minutes(to),
    duration |-> Minutes(len),
    isPartial |-> from # 0 \/ to # 0 ]

PlanOf_25_40_15 ==
  << [day |-> 1, videos |-> << Part(1, 0, 0, 25), Part(2, 0, 5, 5) >>,
      totalTime |-> Minutes(30), completed |-> FALSE],
     [day |-> 2, videos |-> << Part(2, 5, 35, 30) >>,
      totalTime |-> Minutes(30), completed |-> FALSE],
     [day |-> 3, videos |-> << Part(2, 35, 0, 5), Part(3, 0, 0, 15) >>,
      totalTime |-> Minutes(20), completed |-> FALSE] >>

PlanOf_20_40_15 ==
  << [day |-> 1, videos |-> << Part(1, 0, 0, 20), Part(2, 0, 10, 10) >>,
      totalTime |-> Minutes(30), completed |-> FALSE],
     [day |-> 2, videos |-> << Part(2, 10, 0, 30) >>,
      totalTime |-> Minutes(30), completed |-> FALSE],
     [day |-> 3, videos |-> << Part(3, 0, 0, 15) >>,
      totalTime |-> Minutes(15), completed |-> FALSE] >>

\* C5: reference partition. For positive whole-minute durations of total T
\* and a positive whole-minute capacity C, day k of the returned plan holds
\* exactly the slice [(k-1)*C, min(k*C, T)) of the timeline of the items
\* laid end to end, so there are ceil(T/C) days; [25,40,15] and [20,40,15]
\* with C = 30 give the documented three days.
C5_ReferencePartition ==
  (Returned /\ IntegerInput) =>
    LET T == SumItems(NumItems)
        C == dailyWatchTimeMinutes.v
    IN  /\ Len(plan) = (T + C - 1) \div C
        /\ \A d \in 1..Len(plan) :
             LET segs == plan[d].videos
             IN  /\ Len(segs) >= 1
                 /\ GlobalStart(segs[1]) = (d - 1) * C
                 /\ \A a \in 1..(Len(segs) - 1) :
                      GlobalStart(segs[a + 1]) = GlobalStart(segs[a]) + segs[a].duration.v
                 /\ GlobalStart(segs[Len(segs)]) + segs[Len(segs)].duration.v
                      = Smaller(d * C, T)
        /\ (DurationsAre(<< 25, 40, 15 >>) /\ dailyWatchTimeMinutes = Minutes(30))
             => plan = PlanOf_25_40_15
        /\ (DurationsAre(<< 20, 40, 15 >>) /\ dailyWatchTimeMinutes = Minutes(30))
             => plan = PlanOf_20_40_15

\* the documented example [25,40,15] with C = 30 has returned its three days
C5_Witness ==
  /\ Returned /\ IntegerInput
  /\ DurationsAre(<< 25, 40, 15 >>)
  /\ dailyWatchTimeMinutes = Minutes(30)
  /\ Len(plan) = 3
  /\ plan[3].totalTime = Minutes(20)

\* some item has a negative or non-finite duration
HasInvalidItem ==
  /\ ~ videos.isNull
  /\ \E k \in 1..NumItems : ~ IsFinite(Duration(k)) \/ Duration(k).v < 0

\* C6: zero-duration items. An item with durationMinutes = 0 appears in the
\* returned plan exactly once, as a segment of duration 0; [0,10] with
\* capacity 10 yields one day of two segments.
C6_ZeroDurationSegment ==
  (Returned /\ ValidInput) =>
    LET segs == AllSegments(plan)
    IN  /\ \A k \in 1..NumItems :
             Duration(k) = Zero =>
               /\ Cardinality({ a \in 1..Len(segs) : segs[a].id = k }) = 1
               /\ \A a \in 1..Len(segs) : segs[a].id = k => segs[a].duration = Zero
        /\ (DurationsAre(<< 0, 10 >>) /\ dailyWatchTimeMinutes = Minutes(10)) =>
             Len(plan) = 1 /\ Len(plan[1].videos) = 2

\* C7: invalid item durations. With an item of negative or non-finite
\* duration the call produces no day at all and ends with an
\* InvalidInputError (stated for the positive finite capacities, for which
\* no other rule applies).
C7_InvalidDurationFails ==
  (HasInvalidItem /\ ValidCapacity) =>
    /\ plan = << >>
    /\ Returned => thrown = "InvalidInputError"

\* C8: no-op inputs. With an absent or empty item list, or a capacity that
\* is zero or negative, the call goes from its entry straight to its
\* return, the plan is empty and nothing is thrown, whatever the other
\* argument is.
C8_NoOpInputs ==
  (videos.isNull \/ Len(videos.items) = 0 \/ JsLe(dailyWatchTimeMinutes, Zero)) =>
    /\ pc \in { "call", "done" }
    /\ plan = << >>
    /\ thrown = "none"

\* the call has returned for a negative capacity and three items, one of
\* them of invalid duration
C8_Witness ==
  /\ Returned
  /\ dailyWatchTimeMinutes = Num(-1)
  /\ NumItems >= 3
  /\ HasInvalidItem
  /\ plan = << >>

\* C9: non-finite capacity. With a capacity that is NaN or infinite the
\* returned plan is empty.
C9_NonFiniteCapacityEmpty ==
  (Returned /\ ~ IsFinite(dailyWatchTimeMinutes)) => plan = << >>

\* the minutes of item id held by the first n segments of segs
RECURSIVE WatchedBefore(_, _, _)
WatchedBefore(segs, n, id) ==
  IF n = 0 THEN 0
  ELSE WatchedBefore(segs, n - 1, id)
         + (IF segs[n].id = id THEN segs[n].duration.v ELSE 0)

\* C10: isPartial. A segment of the plan is flagged partial if and only if
\* it starts after offset 0 or ends before the item's durationMinutes, that
\* is, if and only if its duration is not the item's whole duration; a
\* single item equal to the capacity yields one day with one segment, not
\* partial.
C10_IsPartial ==
  ValidItems =>
    LET segs == AllSegments(plan)
    IN  /\ \A a \in 1..Len(segs) :
             LET s == segs[a]
                 from == WatchedBefore(segs, a - 1, s.id)
                 to == from + s.duration.v
                 whole == Duration(s.id).v
             IN  /\ s.isPartial <=> (from > 0 \/ to < whole)
                 /\ ~ s.isPartial <=> s.duration.v = whole
        /\ (Returned /\ ValidCapacity /\ NumItems = 1
              /\ Duration(1) = dailyWatchTimeMinutes) =>
             /\ Len(plan) = 1
             /\ Len(plan[1].videos) = 1
             /\ ~ plan[1].videos[1].isPartial

\* a returned plan with the first, a middle and the last part of one item
\* flagged partial and another item whole, not partial
C10_Witness ==
  /\ Returned /\ ValidInput
  /\ LET segs == AllSegments(plan)
     IN  /\ \E a \in 1..Len(segs) : ~ segs[a].isPartial
         /\ \E a \in 1..Len(segs) :
              segs[a].isPartial /\ segs[a].startTime = Null
         /\ \E a \in 1..Len(segs) :
              segs[a].isPartial /\ segs[a].startTime # Null /\ segs[a].endTime # Null
         /\ \E a \in 1..Len(segs) :
              segs[a].isPartial /\ segs[a].endTime = Null

\* C11: day numbering. The days of the plan carry day = 1, 2, ..., n in
\* list order, for every input.
C11_DayNumbering ==
  /\ \A d \in 1..Len(plan) : plan[d].day = d
  /\ currentDay = Len(plan) + 1 \/ Returned

\* a returned plan of four days or more
C11_Witness ==
  /\ Returned
  /\ Len(plan) >= 4
  /\ plan[4].day = 4

\* C12: no empty day. No day of the plan has an empty segment list; when an
\* item exactly fills what is left of a day, that day is closed once and
\* no empty day follows it, whether or not further items follow: every day
\* holds watch time, and a list of items that each equal the capacity gives
\* one day per item.
C12_NoEmptyDay ==
  /\ \A d \in 1..Len(plan) : Len(plan[d].videos) >= 1
  /\ ValidItems =>
       \A d \in 1..Len(plan) : JsGt(plan[d].totalTime, Zero)
  /\ (Returned /\ ValidInput
        /\ \A k \in 1..NumItems : Duration(k) = dailyWatchTimeMinutes) =>
       Len(plan) = NumItems

\* an item has exactly filled the first day, and another item the second
C12_Witness ==
  /\ Returned /\ ValidInput
  /\ NumItems = 2
  /\ Duration(1) = dailyWatchTimeMinutes
  /\ Duration(2) = dailyWatchTimeMinutes
  /\ Len(plan) = 2

\* an item that exactly fills the day, followed by an item of no duration:
\* the call ends with an empty list of open segments and one day
C12_WitnessTail ==
  /\ Returned /\ ValidInput
  /\ NumItems = 2
  /\ Duration(1) = dailyWatchTimeMinutes
  /\ Duration(2) = Zero
  /\ Len(plan) = 1

\* C13: termination. For a non-empty list of items with finite durations
\* >= 0 and a positive finite capacity the call returns; each pass of the
\* while loop finishes the item or closes a day; items of duration 0
\* included.
C13_Termination ==
  /\ [][ (ValidInput /\ pc = "while" /\ pc' = "while") =>
           (~ WhileCond(videoRemainingTime') \/ Len(plan') = Len(plan) + 1) ]_vars
  /\ ValidInput ~> Returned

\* a call with an item of duration 0 and an item cut over three days has returned
C13_Witness ==
  /\ Returned /\ ValidInput
  /\ \E k \in 1..NumItems : Duration(k) = Zero
  /\ \E k \in 1..NumItems : Cardinality(DaysOf(k)) >= 3

\* the segments emitted so far: those of the closed days and of the open one
Emitted ==
  IF Returned THEN AllSegments(plan) ELSE AllSegments(plan) \o currentDayVideos

\* every emitted segment has duration = end offset - start offset > 0
PositiveSegments ==
  \A a \in 1..Len(Emitted) :
    /\ Emitted[a].duration.v = EndOf(Emitted[a]) - StartOf(Emitted[a])
    /\ Emitted[a].duration.v > 0

\* the while loop is about to place a segment into the open day
AboutToPlace == pc = "while" /\ WhileCond(videoRemainingTime)

\* C19 as stated: every segment has duration = end - start > 0, and no
\* segment is placed into a day whose remaining capacity is <= 0.01.
C19_SegmentsAsStated ==
  ValidInput =>
    /\ PositiveSegments
    /\ AboutToPlace => JsGt(remainingDailyTime, Eps)

\* C19, amended: every segment has duration = end - start > 0; no segment
\* is placed into a day whose remaining capacity is <= 0.01, unless the
\* capacity itself is <= 0.01: then every day starts with the whole
\* capacity left and holds exactly one segment.
C19_Segments ==
  ValidInput =>
    /\ PositiveSegments
    /\ JsGt(dailyWatchTimeMinutes, Eps) =>
         (AboutToPlace => JsGt(remainingDailyTime, Eps))
    /\ JsLe(dailyWatchTimeMinutes, Eps) =>
         /\ AboutToPlace => remainingDailyTime = dailyWatchTimeMinutes
         /\ \A d \in 1..Len(plan) : Len(plan[d].videos) = 1

\* with a capacity above the tolerance, a day was closed with 0.01 minute
\* or less left of it and the next segment went to a fresh day
C19_Witness ==
  /\ Returned /\ ValidInput
  /\ JsGt(dailyWatchTimeMinutes, Eps)
  /\ Len(plan) >= 3
  /\ JsLt(plan[1].totalTime, dailyWatchTimeMinutes)
  /\ JsLt(plan[2].totalTime, dailyWatchTimeMinutes)

C14_WitnessInterleaved ==
  /\ pc = "while"
  /\ second.pc = "while"
  /\ Len(plan) = 2
  /\ Len(second.plan) = 1

\* ----------------------------------------- claims on generateWatchPlan
\* the segments generateWatchPlan has emitted so far
GenEmitted ==
  IF gen.pc = "done" THEN AllSegments(gen.plan)
  ELSE AllSegments(gen.plan) \o gen.currentDayVideos

\* the segment holds its item from the first minute to the last
CoversWhole(s) == s.duration = Duration(s.id)

\* C21: isPartial in the overlay. A segment of generateWatchPlan is flagged
\* isPartial only if it starts after 0 or ends before its item's duration;
\* an item placed whole at the start of a new day, after a day that was
\* exactly full, is not flagged.
C21_IsPartialOverlay ==
  (ValidItems /\ ValidCapacity) =>
    \A a \in 1..Len(GenEmitted) :
      LET s == GenEmitted[a]
      IN  /\ s.isPartial =>
               JsGt(s.startTime, Zero) \/ JsLt(s.endTime, Duration(s.id))
          /\ CoversWhole(s) => ~ s.isPartial

\* C22: termination of generateWatchPlan. For items with finite durations
\* >= 0 the call returns, whatever the capacity; with a capacity of zero or
\* less it emits no day and returns the empty list.
C22_WatchPlanTerminates ==
  /\ [] ((ValidItems /\ JsLe(dailyWatchTimeMinutes, Zero)) => gen.plan = << >>)
  /\ (ValidItems /\ Returned) ~> (gen.pc = "done")

\* positive durations and a capacity of one minute or more
PositiveInput ==
  /\ ValidInput
  /\ \A k \in 1..NumItems : Duration(k).v > 0
  /\ JsLe(Minutes(1), dailyWatchTimeMinutes)

\* C24: the two schedulers agree. For positive durations and a capacity of
\* one minute or more, generateWatchPlan and generateDayWisePlan return the
\* same number of days with the same totalTime day by day; both return
\* three days for [25,40,15] with 30 minutes a day.
C24_SchedulersAgree ==
  (Returned /\ gen.pc = "done" /\ PositiveInput) =>
    /\ Len(gen.plan) = Len(plan)
    /\ \A d \in 1..Len(plan) : gen.plan[d].totalTime = plan[d].totalTime
    /\ (DurationsAre(<< 25, 40, 15 >>) /\ dailyWatchTimeMinutes = Minutes(30))
         => Len(gen.plan) = 3

\* ------------------------------------------ claims on fetchPlaylistData
\* the endpoints were contacted in list order, none twice, and the second
\* one only after the attempt at the first had failed
ContactedInOrder ==
  /\ client.contacted = [k \in 1..Len(client.contacted) |-> k]
  /\ Len(client.contacted) <= Len(BACKEND_API_URLS)
  /\ Len(client.outcomes) <= Len(client.contacted)
  /\ \A k \in 1..Len(client.contacted) :
       k > 1 => (Len(client.outcomes) >= k - 1 /\ AttemptFailed(client.outcomes[k - 1]))

\* the call throws only when every endpoint has failed
ThrowsWhenAllFailed ==
  client.pc = "thrown" <=>
    /\ Len(client.outcomes) = Len(BACKEND_API_URLS)
    /\ \A k \in 1..Len(client.outcomes) : AttemptFailed(client.outcomes[k])

\* C23 as stated: the endpoints are contacted in list order, the second one
\* only after the first attempt failed; the data of the first endpoint that
\* answers OK is returned and no later endpoint is contacted; the call
\* throws only when every endpoint has failed.
C23_FallbackAsStated ==
  /\ ContactedInOrder
  /\ ThrowsWhenAllFailed
  /\ \A k \in 1..Len(client.outcomes) :
       ResponseOk(client.outcomes[k]) =>
         /\ client.pc = "returned"
         /\ client.result = client.outcomes[k].body
         /\ Len(client.contacted) = k

\* C23, amended: as stated, with "answers OK" read as "answers OK with a
\* body that can be read as JSON": an OK answer whose body cannot be read
\* counts as a failed attempt and the next endpoint is contacted.
C23_Fallback ==
  /\ ContactedInOrder
  /\ ThrowsWhenAllFailed
  /\ \A k \in 1..Len(client.outcomes) :
       (ResponseOk(client.outcomes[k]) /\ client.outcomes[k].body # Undefined) =>
         /\ client.pc = "returned"
         /\ client.result = client.outcomes[k].body
         /\ Len(client.contacted) = k
  /\ client.pc = "returned" =>
       /\ ResponseOk(client.outcomes[Len(client.outcomes)])
       /\ client.result \in Bodies

\* production answered with an error status, localhost with the data
C23_Witness ==
  /\ client.pc = "returned"
  /\ client.contacted = << 1, 2 >>
  /\ client.outcomes[1].status = 500
  /\ client.result = Body("v1")

\* production answered at once and localhost was never contacted
C23_WitnessFirst ==
  /\ client.pc = "returned"
  /\ client.contacted = << 1 >>

\* both endpoints failed and the call has thrown
C23_WitnessThrown ==
  /\ client.pc = "thrown"
  /\ client.contacted = << 1, 2 >>
  /\ client.lastError = Rejected("timeout")

\* the number of requests of ip let through at a time in (lo, hi]
AcceptedIn(ip, lo, hi) ==
  Cardinality({ k \in DOMAIN accepted[ip] :
                  accepted[ip][k] > lo /\ accepted[ip][k] <= hi })

\* the ends of the windows to look at: a window that holds the most
\* requests can be moved back until it ends at one of them
WindowEnds(ip) == { accepted[ip][k] : k \in DOMAIN accepted[ip] } \cup { now }

\* C15: rate limit. For each client IP, at most 10 requests are let through
\* in any window (t - 60000, t]; a request that arrives when 10 requests of
\* its IP let through lie in the window is answered 429 and is not counted.
C15_RateLimit ==
  /\ [] (\A ip \in Ips : \A t \in WindowEnds(ip) :
           AcceptedIn(ip, t - WindowMs, t) <= MAX_REQUESTS_PER_MINUTE)
  /\ [][ \A ip \in Ips :
           AcceptedIn(ip, now - WindowMs, now) >= MAX_REQUESTS_PER_MINUTE =>
             \A req \in Requests :
               (req.method # "OPTIONS" /\ ClientIp(req) = ip /\ Handle(req))
               => ( /\ response'.status = 429
                    /\ accepted' = accepted
                    /\ rateLimits' = rateLimits ) ]_vars

\* the eleventh request of a client within the window was answered 429
C15_Witness ==
  /\ response.status = 429
  /\ \E ip \in Ips :
       /\ AcceptedIn(ip, now - WindowMs, now) = MAX_REQUESTS_PER_MINUTE
       /\ Len(accepted[ip]) = MAX_REQUESTS_PER_MINUTE
       /\ Len(MapGet(rateLimits, ip)) = MAX_REQUESTS_PER_MINUTE

\* an eleventh request was let through once the window had moved on
C15_WitnessNextWindow ==
  \E ip \in Ips :
    /\ Len(accepted[ip]) > MAX_REQUESTS_PER_MINUTE
    /\ Len(MapGet(rateLimits, ip)) = 1

\* the request of an answer or of a suspended call is a later one than the
\* request answered by f, for the same playlist, within the time to live
LaterWithinTTL(id, arrived, playlistId, f) ==
  /\ id > f.upto
  /\ playlistId = f.playlistId
  /\ arrived - f.at < TTLMs

\* C18: cache hit. Once the handler has answered 200 for a playlistId from
\* an upstream fetch, every later valid request for the same playlistId that
\* passes the rate limit within the hour is answered 200 with the same body
\* and without a fetch; a failed fetch stores nothing in the cache.
C18_CacheHit ==
  /\ \A f \in fetched :
       /\ LaterWithinTTL(response.id, response.arrived, response.playlistId, f)
            => ( /\ response.status = 200
                 /\ response.body = f.body
                 /\ ~ response.fetch )
       /\ \A q \in pending :
            ~ LaterWithinTTL(q.id, q.arrived, q.playlistId, f)
  /\ \A key \in DOMAIN cache :
       \E f \in fetched :
         f.playlistId.name = key /\ f.body = cache[key].value

\* a later request within the hour was answered from the cache
C18_Witness ==
  \E f \in fetched :
    /\ LaterWithinTTL(response.id, response.arrived, response.playlistId, f)
    /\ response.status = 200
    /\ response.body = f.body
    /\ ~ response.fetch

\* ------------------------------------ the extension: popup and overlay
\* chrome.storage keeps its values as JSON: NaN and the infinities become null
JsonNumber(a) == IF a.tag \in { "nan", "inf" } THEN Null ELSE a

JsonSegment(seg) ==
  [f \in DOMAIN seg |->
     IF f \in { "startTime", "endTime", "duration" } THEN JsonNumber(seg[f])
     ELSE seg[f]]

JsonPlan(days) ==
  [d \in DOMAIN days |->
     [days[d] EXCEPT !.totalTime = JsonNumber(@),
                     !.videos = [k \in DOMAIN @ |-> JsonSegment(@[k])]]]

\* the playlists the user fetches: a title and the minutes of the videos
Playlist(title, minutes) ==
  [title |-> title, videoCount |-> Len(minutes), minutes |-> minutes]

Playlists == { Playlist("A", << 25, 40, 15 >>), Playlist("B", << 20, 40, 15 >>) }

\* the minutes a day the user types
DailyInputs == { 0, 30 }

\* popup.js line 152: generateDayWisePlan on a fetched playlist, for the
\* two playlists above and 30 minutes a day
GeneratedPlan(playlistData, dailyTime) ==
  IF playlistData.minutes = << 25, 40, 15 >> THEN PlanOf_25_40_15
  ELSE PlanOf_20_40_15

\* popup.js lines 344-348 (and 170-174): the value saved under planData
PlanData(st) ==
  [playlistData |-> st.playlistData, plan |-> JsonPlan(st.plan),
   dailyWatchTime |-> st.dailyWatchTime]

\* a storage call of the popup page that issued it
Call(op, value) == [op |-> op, value |-> value, page |-> page]

MaxQueue == 2
MaxPages == 2

\* what a step of the extension leaves alone
notUi == << plannerVars, second, backendVars, gen, client, storeVars >>

\* what a step of the popup leaves alone
notPopup == << notUi, overlayHist >>

\* popup.js lines 88-135: handleFetchPlaylist has got a playlist
PopupFetch ==
  /\ appState.loaded
  /\ \E pl \in Playlists : appState' = [appState EXCEPT !.playlistData = pl]
  /\ UNCHANGED << storage, queue, page, state, planIds, expected, overlapped,
                  reset >>
  /\ UNCHANGED notPopup

\* popup.js lines 137-180: handleGeneratePlan, up to the call of
\* chrome.storage.local.set
PopupGenerate ==
  /\ appState.loaded
  /\ Len(queue) < MaxQueue
  /\ \E dailyTime \in DailyInputs :
       IF dailyTime = 0 \/ dailyTime <= 0 \/ appState.playlistData = Undefined
       THEN UNCHANGED << appState, queue, expected, overlapped, reset >>
       ELSE LET newPlan == GeneratedPlan(appState.playlistData, dailyTime)
                st == [appState EXCEPT !.plan = newPlan,
                                       !.dailyWatchTime = dailyTime]
            IN  /\ appState' = st
                /\ queue' = Append(queue, Call("set", PlanData(st)))
                /\ expected' = newPlan
                /\ overlapped' = FALSE
                /\ reset' = [phase |-> "none", shown |-> << >>]
  /\ UNCHANGED << storage, page, state, planIds >>
  /\ UNCHANGED notPopup

\* a checkbox that is always saved as checked
WithCompleted_Checked(days, dayIndex, completed) ==
  [days EXCEPT ![dayIndex + 1].completed = TRUE]

\* popup.js line 331, overlay.js line 825
WithCompleted(days, dayIndex, completed) ==
  [days EXCEPT ![dayIndex + 1].completed = completed]

\* popup.js lines 329-349: handleDayCompletion, up to the call of
\* chrome.storage.local.set
PopupToggle ==
  /\ appState.loaded
  /\ Len(queue) < MaxQueue
  /\ \E dayIndex \in 0..(Len(appState.plan) - 1), completed \in BOOLEAN :
       LET st == [appState EXCEPT
                    !.plan = WithCompleted(@, dayIndex, completed)]
       IN  /\ appState' = st
           /\ queue' = Append(queue, Call("set", PlanData(st)))
           /\ expected' = [expected EXCEPT ![dayIndex + 1].completed = completed]
           /\ overlapped' =
                (overlapped \/ \E k \in DOMAIN queue : queue[k].op = "set")
  /\ UNCHANGED << storage, page, state, planIds, reset >>
  /\ UNCHANGED notPopup

\* popup.js lines 182-191: handleReset, confirmed, up to the call of
\* clearAllStorage
PopupReset ==
  /\ appState.loaded
  /\ Len(queue) < MaxQueue
  /\ queue' = Append(queue, Call("clear", Undefined))
  /\ UNCHANGED << storage, appState, page, state, planIds, expected,
                  overlapped, reset >>
  /\ UNCHANGED notPopup

\* the user closes the popup and opens it again: popup.js lines 47-51,
\* DOMContentLoaded up to the call of chrome.storage.local.get
PopupOpen ==
  /\ appState.loaded
  /\ page < MaxPages
  /\ Len(queue) < MaxQueue
  /\ page' = page + 1
  /\ appState' = AppStateInitial
  /\ queue' = Append(queue, [op |-> "get", value |-> Undefined, page |-> page + 1])
  /\ UNCHANGED << storage, state, planIds, expected, overlapped, reset >>
  /\ UNCHANGED notPopup

\* popup.js lines 51-66: appState once getFromStorage('planData') has
\* answered with saved
Restored(saved) ==
  IF saved = Undefined THEN [AppStateInitial EXCEPT !.loaded = TRUE]
  ELSE [loaded |-> TRUE, playlistData |-> saved.playlistData,
        plan |-> saved.plan, dailyWatchTime |-> saved.dailyWatchTime]

\* chrome.storage.local carries out the oldest call and calls back; the
\* callback runs only in the page that made the call
StorageStep ==
  /\ queue # << >>
  /\ LET call == Head(queue)
         alive == call.page = page
     IN  CASE call.op = "set" ->
                /\ storage' = [storage EXCEPT !.planData = call.value]
                /\ queue' = Tail(queue)
                /\ UNCHANGED << appState, page, reset >>
           [] call.op = "clear" ->
                \* clearAllStorage, then location.reload() of line 186
                /\ storage' = EmptyStorage
                /\ reset' = [phase |-> "reset", shown |-> << >>]
                /\ IF alive /\ page < MaxPages
                   THEN /\ page' = page + 1
                        /\ appState' = AppStateInitial
                        /\ queue' = Append(Tail(queue),
                                           [op |-> "get", value |-> Undefined,
                                            page |-> page + 1])
                   ELSE /\ queue' = Tail(queue)
                        /\ UNCHANGED << appState, page >>
           [] call.op = "get" ->
                /\ queue' = Tail(queue)
                /\ UNCHANGED << storage, page >>
                /\ IF alive
                   THEN /\ appState' = Restored(storage.planData)
                        /\ reset' = IF reset.phase = "reset"
                                    THEN [phase |-> "init",
                                          shown |-> Restored(storage.planData).plan]
                                    ELSE reset
                   ELSE UNCHANGED << appState, reset >>
  /\ UNCHANGED << state, planIds, expected, overlapped >>
  /\ UNCHANGED notPopup

\* --- the popup alone
InitUi ==
  /\ PlannerIdle
  /\ BackendIdle

NextPopup ==
  \/ PopupFetch
  \/ PopupGenerate
  \/ PopupToggle
  \/ PopupOpen
  \/ StorageStep

SpecPopup == InitUi /\ [][NextPopup]_vars

\* no save of the popup is still on its way
AllSaved == \A k \in DOMAIN queue : queue[k].op # "set"

\* C17: progress persistence round trip. Whatever days were checked and
\* unchecked, also when a save was started before an earlier one had
\* finished: once the saves are done the stored plan, and the plan a popup
\* opened again restores from it, is the generated plan with each day's
\* completed flag at the value last set, and nothing else changed.
C17_ProgressRoundTrip ==
  /\ appState.loaded => appState.plan = expected
  /\ (AllSaved /\ expected # << >>) =>
       /\ storage.planData # Undefined
       /\ storage.planData.plan = expected

\* a popup opened again has restored a plan with a day checked and a day
\* unchecked after overlapping saves
C17_Witness ==
  /\ page > 1
  /\ appState.loaded
  /\ queue = << >>
  /\ overlapped
  /\ Len(appState.plan) = 3
  /\ appState.plan[1].completed
  /\ ~ appState.plan[2].completed
  /\ appState.plan = expected

\* ------------------------------------------------ the overlay
\* overlay.js lines 657-660: state.videos, the minutes of each video
StateVideos(minutes) ==
  [ isNull |-> FALSE,
    items |-> [k \in DOMAIN minutes |-> [id |-> k, duration |-> Minutes(minutes[k])]] ]

\* the playlist fetched in the overlay
OverlayPlaylists == { Playlist("B", << 20, 40, 15 >>) }

\* the minutes a day typed into the overlay: nothing, less than a video
\* lasts, and more than either playlist lasts
OverlayDailyInputs == { 0, 30, 100 }

MaxPlans == 2

\* overlay.js lines 88-96: getPlansData
GetPlansData ==
  IF storage.playlistPlans = Undefined
  THEN [plans |-> << >>, activePlanId |-> NullId]
  ELSE storage.playlistPlans

\* overlay.js lines 107-136: the stored plans after createPlan
CreatePlan(plansData, id, playlistData, dailyWatchTime, days) ==
  [plans |-> Append(plansData.plans,
                    [id |-> id, title |-> playlistData.title,
                     totalVideos |-> playlistData.videoCount,
                     dailyMinutes |-> dailyWatchTime, planData |-> JsonPlan(days)]),
   activePlanId |-> IF plansData.activePlanId = NullId THEN id
                    ELSE plansData.activePlanId]

\* overlay.js lines 574-583: applyPlanToState
ApplyPlanToState(st, stored) ==
  [st EXCEPT !.playlistData = [title |-> stored.title,
                                videoCount |-> stored.totalVideos],
             !.plan = stored.planData,
             !.dailyWatchTime = stored.dailyMinutes,
             !.currentPlanId = stored.id]

\* overlay.js lines 635-674: handleFetchPlaylist has got a playlist
OverlayFetch ==
  /\ queue = << >>
  /\ \E pl \in OverlayPlaylists :
       state' = [state EXCEPT !.playlistData = [title |-> pl.title,
                                                videoCount |-> Len(pl.minutes)],
                              !.videos = pl.minutes]
  /\ UNCHANGED << storage, queue, appState, page, planIds, expected,
                  overlapped, reset >>
  /\ UNCHANGED overlayHist
  /\ UNCHANGED notUi

\* overlay.js lines 676-704: handleGeneratePlan
OverlayGenerate ==
  /\ queue = << >>
  /\ planIds < MaxPlans
  /\ \E dailyWatchTime \in OverlayDailyInputs :
       IF dailyWatchTime = 0 \/ dailyWatchTime < 1
       THEN UNCHANGED << storage, state, planIds, reset, deleted >>
       ELSE IF state.playlistData = Undefined
       THEN \* line 687: createPlan throws on playlistData.title
            /\ state' = [state EXCEPT
                           !.dailyWatchTime = dailyWatchTime,
                           !.plan = GenerateWatchPlan(StateVideos(state.videos),
                                                      Minutes(dailyWatchTime))]
            /\ UNCHANGED << storage, planIds, reset, deleted >>
       ELSE LET days == GenerateWatchPlan(StateVideos(state.videos),
                                         Minutes(dailyWatchTime))
                id == planIds + 1
                plansData == CreatePlan(GetPlansData, id, state.playlistData,
                                        dailyWatchTime, days)
            IN  /\ planIds' = id
                /\ storage' =
                     [planData |-> [playlistData |-> state.playlistData,
                                    plan |-> JsonPlan(days),
                                    dailyWatchTime |-> dailyWatchTime],
                      playlistPlans |-> plansData]
                \* line 698, loadAndDisplayPlans, sets currentPlanId again
                /\ state' = [state EXCEPT !.dailyWatchTime = dailyWatchTime,
                                          !.plan = days,
                                          !.currentPlanId = plansData.activePlanId,
                                          !.plansCache = plansData.plans]
                /\ reset' = [phase |-> "none", shown |-> << >>]
                /\ deleted' = NoDelete
  /\ UNCHANGED << queue, appState, page, expected, overlapped, updated >>
  /\ UNCHANGED notUi

\* overlay.js lines 711-715: what handleReset clears
StateAfterReset(st) ==
  [st EXCEPT !.playlistData = Undefined, !.videos = << >>, !.plan = << >>,
             !.dailyWatchTime = 0]

\* overlay.js lines 706-721: handleReset, confirmed
OverlayReset ==
  /\ queue = << >>
  /\ state' = StateAfterReset(state)
  /\ reset' = [phase |-> "reset", shown |-> << >>]
  /\ UNCHANGED << storage, queue, appState, page, planIds, expected,
                  overlapped >>
  /\ UNCHANGED overlayHist
  /\ UNCHANGED notUi

\* the id of the plan made up for a planData without a stored plan
LegacyId == 0 - 1

\* overlay.js lines 617-618: playlistData?.title || 'Saved Plan' and
\* playlistData?.videoCount || 0
LegacyTitle(playlistData) ==
  IF playlistData = Undefined THEN "Saved Plan" ELSE playlistData.title
LegacyVideoCount(playlistData) ==
  IF playlistData = Undefined THEN 0 ELSE playlistData.videoCount

\* the YouTube page is loaded again: overlay.js lines 314-331 and 366-370,
\* initialize, with loadAndDisplayPlans (424-434) and restoreActivePlan
\* (585-627)
OverlayInit ==
  /\ queue = << >>
  /\ LET plansData == GetPlansData
         loaded == [StateInitial EXCEPT !.currentPlanId = plansData.activePlanId,
                                        !.plansCache = plansData.plans]
         IsActive(p) == p.id = loaded.currentPlanId
         \* line 587, plansCache.find: the first one is taken
         activePlan == SelectSeq(loaded.plansCache, IsActive)
         legacy == storage.planData
         legacyHasPlan == legacy # Undefined /\ Len(legacy.plan) > 0
     IN  IF loaded.currentPlanId # NullId /\ activePlan # << >>
         THEN LET stored == activePlan[1]
                  sync == /\ legacyHasPlan
                          /\ Len(legacy.plan) = Len(stored.planData)
                          /\ legacy.playlistData # Undefined
                          /\ legacy.playlistData.title = stored.title
                  synced == IF sync THEN [stored EXCEPT !.planData = legacy.plan]
                            ELSE stored
              IN  /\ state' = ApplyPlanToState(loaded, synced)
                  /\ storage' =
                       IF sync
                       THEN [storage EXCEPT !.playlistPlans.plans =
                               [k \in DOMAIN @ |->
                                  IF @[k].id = stored.id
                                  THEN [@[k] EXCEPT !.planData = legacy.plan]
                                  ELSE @[k]]]
                       ELSE storage
         ELSE /\ UNCHANGED storage
              /\ state' =
                   IF legacyHasPlan
                   THEN [playlistData |-> legacy.playlistData,
                         videos |-> << >>,
                         plan |-> legacy.plan,
                         currentPlanId |-> IF loaded.currentPlanId # NullId
                                           THEN loaded.currentPlanId ELSE LegacyId,
                         dailyWatchTime |-> legacy.dailyWatchTime,
                         plansCache |->
                           IF Len(loaded.plansCache) > 0 THEN loaded.plansCache
                           ELSE << [id |-> LegacyId,
                                    title |-> LegacyTitle(legacy.playlistData),
                                    totalVideos |-> LegacyVideoCount(legacy.playlistData),
                                    dailyMinutes |-> legacy.dailyWatchTime,
                                    planData |-> legacy.plan] >>]
                   ELSE loaded
  /\ reset' = IF reset.phase = "reset"
              THEN [phase |-> "init", shown |-> state'.plan]
              ELSE reset
  /\ deleted' = IF deleted.phase = "deleted"
                THEN [deleted EXCEPT !.phase = "init"]
                ELSE deleted
  /\ UNCHANGED << queue, appState, page, planIds, expected, overlapped, updated >>
  /\ UNCHANGED notUi

\* --- the popup and the overlay of one browser
NextUi ==
  \/ PopupFetch
  \/ PopupGenerate
  \/ PopupReset
  \/ StorageStep
  \/ OverlayFetch
  \/ OverlayGenerate
  \/ OverlayReset
  \/ OverlayInit

SpecUi == InitUi /\ [][NextUi]_vars

\* C16: Reset clears all data. Once a Reset was confirmed and carried out,
\* and until a plan is generated again, no plan is kept in storage, and the
\* popup or overlay initialised next restores no plan and shows no day.
C16_ResetClearsAll ==
  /\ reset.phase \in { "reset", "init" } =>
       /\ storage.planData = Undefined
       /\ GetPlansData.plans = << >>
  /\ reset.phase = "init" => reset.shown = << >>

\* ------------------------------------------------ the plan store
\* the store functions called on their own, in any order and overlapping:
\* each one reads 'playlistPlans', and the ones that save are suspended at
\* "await savePlansData" until chrome.storage has written
MaxCalls == 3

\* overlay.js lines 91 and 94: the store with nothing in it
NoPlans == [plans |-> << >>, activePlanId |-> NullId]

\* the ids of the plans of a store
PlanIdsOf(plansData) == { plansData.plans[k].id : k \in DOMAIN plansData.plans }

\* Array.find / Array.some on the id
HasPlan(plansData, planId) == planId \in PlanIdsOf(plansData)

\* overlay.js lines 144-152: what setActivePlan saves
SetActivePlan(plansData, planId) == [plansData EXCEPT !.activePlanId = planId]

\* a delete that leaves activePlanId as it was
DeletePlan_KeepActive(plansData, planId) ==
  LET IsOther(p) == p.id # planId
  IN  [plansData EXCEPT !.plans = SelectSeq(plansData.plans, IsOther)]

\* overlay.js lines 154-164: what deletePlan saves and returns
DeletePlan(plansData, planId) ==
  LET IsOther(p) == p.id # planId
      rest == SelectSeq(plansData.plans, IsOther)
  IN  [plans |-> rest,
       activePlanId |->
         IF plansData.activePlanId = planId
         THEN (IF Len(rest) > 0 THEN rest[1].id ELSE NullId)
         ELSE plansData.activePlanId]

\* overlay.js lines 166-176: what updatePlanData saves
UpdatePlanData(plansData, planId, days) ==
  [plansData EXCEPT !.plans =
     [k \in DOMAIN @ |->
        IF @[k].id = planId /\ \A j \in 1..(k - 1) : @[j].id # planId
        THEN [@[k] EXCEPT !.planData = JsonPlan(days)]
        ELSE @[k]]]

\* the day list the store functions are called with: one day, one video
StoreDays(done) ==
  << [Day(1, << WholeSegment([id |-> 1, duration |-> Minutes(25)]) >>, Minutes(25))
        EXCEPT !.completed = done] >>

\* a plan id says nothing of the plan: the ids given out, and one never given
StoreIds == (1..MaxPlans) \cup { LegacyId }

\* a store function that has returned: what it was called with, whether the
\* id was in the store when it read it, what it returned and whether it saved
Finished(fn, planId, known, result, saved) ==
  [fn |-> fn, planId |-> planId, known |-> known, result |-> result,
   saved |-> saved]

\* a store function suspended at "await savePlansData(data)"
Suspended(fn, planId, known, data) ==
  [fn |-> fn, planId |-> planId, known |-> known, data |-> data]

\* lines 88-96: what getPlansData returns; a read that fails gives the
\* store with nothing in it
ReadPlansData(readOk) == IF readOk THEN GetPlansData ELSE NoPlans

StoreUnchanged ==
  UNCHANGED << queue, appState, page, state, expected, overlapped, reset >>

\* lines 107-134: createPlan, up to the await of savePlansData
CallCreatePlan ==
  /\ Len(finished) + Cardinality(calls) < MaxCalls
  /\ planIds < MaxPlans
  /\ \E readOk \in BOOLEAN :
       LET id == planIds + 1
           data == CreatePlan(ReadPlansData(readOk), id,
                              [title |-> "A", videoCount |-> 1], 30,
                              StoreDays(FALSE))
       IN  /\ planIds' = id
           /\ calls' = calls \cup { Suspended("createPlan", id, FALSE, data) }
  /\ UNCHANGED << storage, finished >>
  /\ StoreUnchanged
  /\ UNCHANGED overlayHist
  /\ UNCHANGED << plannerVars, second, backendVars, gen, client >>

\* lines 144-152 and 166-176: setActivePlan or updatePlanData, up to the
\* await of savePlansData, or to "return false"
CallSetOrUpdate ==
  /\ Len(finished) + Cardinality(calls) < MaxCalls
  /\ \E fn \in { "setActivePlan", "updatePlanData" }, planId \in StoreIds,
        readOk \in BOOLEAN :
       LET plansData == ReadPlansData(readOk)
           known == HasPlan(GetPlansData, planId)
           data == IF fn = "setActivePlan" THEN SetActivePlan(plansData, planId)
                   ELSE UpdatePlanData(plansData, planId, StoreDays(TRUE))
       IN  IF HasPlan(plansData, planId)
           THEN /\ calls' = calls \cup { Suspended(fn, planId, known, data) }
                /\ UNCHANGED finished
           ELSE /\ finished' = Append(finished,
                                      Finished(fn, planId, known, FALSE, FALSE))
                /\ UNCHANGED calls
  /\ UNCHANGED << storage, planIds >>
  /\ StoreUnchanged
  /\ UNCHANGED overlayHist
  /\ UNCHANGED << plannerVars, second, backendVars, gen, client >>

\* lines 154-162: deletePlan, up to the await of savePlansData
CallDeletePlan ==
  /\ Len(finished) + Cardinality(calls) < MaxCalls
  /\ \E planId \in StoreIds, readOk \in BOOLEAN :
       calls' = calls \cup
         { Suspended("deletePlan", planId, HasPlan(GetPlansData, planId),
                     DeletePlan(ReadPlansData(readOk), planId)) }
  /\ UNCHANGED << storage, planIds, finished >>
  /\ StoreUnchanged
  /\ UNCHANGED overlayHist
  /\ UNCHANGED << plannerVars, second, backendVars, gen, client >>

\* lines 98-105 and 13-23: chrome.storage has written what a suspended
\* function saved, and the function returns
StoreSaved ==
  /\ \E c \in calls :
       /\ storage' = [storage EXCEPT !.playlistPlans = c.data]
       /\ calls' = calls \ { c }
       /\ finished' = Append(finished,
                             Finished(c.fn, c.planId, c.known, TRUE, TRUE))
  /\ UNCHANGED planIds
  /\ StoreUnchanged
  /\ UNCHANGED overlayHist
  /\ UNCHANGED << plannerVars, second, backendVars, gen, client >>

NextStore ==
  \/ CallCreatePlan
  \/ CallSetOrUpdate
  \/ CallDeletePlan
  \/ StoreSaved

SpecStore == InitUi /\ [][NextStore]_vars

\* the functions of name fn that have returned
FinishedOf(fn) == { k \in DOMAIN finished : finished[k].fn = fn }

\* C25: plan store invariant. From an empty store, after any sequence and
\* any interleaving of createPlan, setActivePlan, deletePlan and
\* updatePlanData, the stored activePlanId is null exactly when the stored
\* plan list is empty and is otherwise the id of a stored plan; setActivePlan
\* and updatePlanData with an id that is not in the store return false and
\* save nothing.
C25_StoreInvariant ==
  /\ GetPlansData.activePlanId = NullId <=> GetPlansData.plans = << >>
  /\ GetPlansData.activePlanId # NullId =>
       HasPlan(GetPlansData, GetPlansData.activePlanId)
  /\ \A c \in calls :
       /\ c.data.activePlanId = NullId <=> c.data.plans = << >>
       /\ c.data.activePlanId # NullId => HasPlan(c.data, c.data.activePlanId)
       /\ c.fn \in { "setActivePlan", "updatePlanData" } => c.known
  /\ \A k \in DOMAIN finished :
       (finished[k].fn \in { "setActivePlan", "updatePlanData" }
          /\ ~ finished[k].known)
       => (finished[k].result = FALSE /\ ~ finished[k].saved)

\* the active plan was deleted while another plan was stored, and the other
\* plan became the active one
C25_Witness ==
  /\ calls = {}
  /\ \E k \in FinishedOf("deletePlan") : finished[k].known
  /\ Len(GetPlansData.plans) = 1
  /\ GetPlansData.activePlanId = 2

\* setActivePlan was called with an id that is not in the store
C25_WitnessUnknown ==
  \E k \in FinishedOf("setActivePlan") :
    /\ ~ finished[k].known
    /\ finished[k].result = FALSE
    /\ GetPlansData.plans # << >>

\* C27: no lost plan. Once every store function has returned, every plan a
\* createPlan has saved and no deletePlan was asked to remove is in the
\* store, also when createPlan calls overlap and when a read of the store
\* fails.
C27_NoLostPlan ==
  calls = {} =>
    \A k \in FinishedOf("createPlan") :
      (\A j \in FinishedOf("deletePlan") : finished[j].planId # finished[k].planId)
      => HasPlan(GetPlansData, finished[k].planId)

\* ------------------------------------- the overlay's plan list
\* overlay.js lines 424-434: loadAndDisplayPlans, on the store as it is
\* after the handler's own save
LoadPlans(st, plansData) ==
  [st EXCEPT !.currentPlanId = plansData.activePlanId,
             !.plansCache = plansData.plans]

\* the store written back, or left without a value when nothing was saved
StoredPlans(saved, plansData) ==
  IF saved THEN [storage EXCEPT !.playlistPlans = plansData] ELSE storage

\* overlay.js lines 531-543: handlePlanSelect, a click on a plan of the list
OverlaySelect ==
  /\ queue = << >>
  /\ \E k \in DOMAIN state.plansCache :
       LET chosen == state.plansCache[k]
           found == HasPlan(GetPlansData, chosen.id)
           plansData == IF found THEN SetActivePlan(GetPlansData, chosen.id)
                        ELSE GetPlansData
       IN  /\ storage' = StoredPlans(found, plansData)
           /\ state' = LoadPlans(ApplyPlanToState(state, chosen), plansData)
  /\ UNCHANGED << queue, appState, page, planIds, expected, overlapped, reset >>
  /\ UNCHANGED overlayHist
  /\ UNCHANGED notUi

\* overlay.js lines 545-572: handlePlanDelete, confirmed
OverlayDelete ==
  /\ queue = << >>
  /\ \E k \in DOMAIN state.plansCache :
       LET gone == state.plansCache[k]
           updatedData == DeletePlan(GetPlansData, gone.id)
           IsNewActive(p) == p.id = updatedData.activePlanId
           newActive == SelectSeq(updatedData.plans, IsNewActive)
           cleared == [state EXCEPT !.currentPlanId = updatedData.activePlanId,
                                    !.plan = << >>,
                                    !.playlistData = Undefined]
           after == IF gone.id # state.currentPlanId THEN state
                    ELSE IF updatedData.activePlanId # NullId /\ newActive # << >>
                    THEN ApplyPlanToState(cleared, newActive[1])
                    ELSE cleared
       IN  /\ storage' = StoredPlans(TRUE, updatedData)
           /\ state' = LoadPlans(after, updatedData)
           /\ deleted' = [phase |-> "deleted", id |-> gone.id]
  /\ UNCHANGED << queue, appState, page, planIds, expected, overlapped, reset,
                  updated >>
  /\ UNCHANGED notUi

\* two day lists are the same but for the completed flags
SameDays(a, b) ==
  [d \in DOMAIN a |-> [a[d] EXCEPT !.completed = FALSE]]
    = [d \in DOMAIN b |-> [b[d] EXCEPT !.completed = FALSE]]

\* overlay.js lines 824-853: handleDayCompletion, a click on the checkbox of
\* a day, which shows the day's completed flag
OverlayToggle ==
  /\ queue = << >>
  /\ \E dayIndex \in 0..(Len(state.plan) - 1) :
       LET days == WithCompleted(state.plan, dayIndex,
                                 ~ state.plan[dayIndex + 1].completed)
           found == state.currentPlanId # NullId
                      /\ HasPlan(GetPlansData, state.currentPlanId)
           plansData == IF found
                        THEN UpdatePlanData(GetPlansData, state.currentPlanId, days)
                        ELSE GetPlansData
           IsCurrent(p) == p.id = state.currentPlanId
           marked == [state EXCEPT !.plan = days]
       IN  /\ storage' =
                [StoredPlans(found, plansData) EXCEPT
                   !.planData = [playlistData |-> state.playlistData,
                                 plan |-> JsonPlan(days),
                                 dailyWatchTime |-> state.dailyWatchTime]]
           /\ state' = IF state.currentPlanId # NullId
                       THEN LoadPlans(marked, plansData)
                       ELSE marked
           /\ updated' =
                IF found
                THEN [id |-> state.currentPlanId,
                      own |-> SameDays(days, SelectSeq(GetPlansData.plans,
                                                       IsCurrent)[1].planData)]
                ELSE updated
  /\ UNCHANGED << queue, appState, page, planIds, expected, overlapped, reset,
                  deleted >>
  /\ UNCHANGED notUi

\* --- the overlay alone
NextOverlay ==
  \/ OverlayFetch
  \/ OverlayGenerate
  \/ OverlaySelect
  \/ OverlayDelete
  \/ OverlayToggle
  \/ OverlayReset
  \/ OverlayInit

SpecOverlay == InitUi /\ [][NextOverlay]_vars

\* C26: displayed plan matches current plan id. Whenever handleDayCompletion
\* calls updatePlanData(id, days), days is the day list of the stored plan
\* with that id, but for the completed flags: marking a day never replaces
\* one plan's days by those of another plan.
C26_UpdateOwnPlan ==
  updated.id # NullId => updated.own

\* C28: deletion is durable. After handlePlanDelete and a new
\* initialisation the deleted plan is not in the plan list and is not the
\* current plan, and when no plan is left in the store no day is displayed.
C28_DeletionDurable ==
  deleted.phase = "init" =>
    /\ ~ HasPlan([plans |-> state.plansCache], deleted.id)
    /\ state.currentPlanId # deleted.id
    /\ GetPlansData.plans = << >> =>
         (state.plan = << >> /\ state.plansCache = << >>)

\* Math.round(100 * n / d) for n >= 0 and d > 0
RoundPercent(n, d) == (200 * n + d) \div (2 * d)

\* the segments of the completed days, counted
RECURSIVE CompletedVideos(_)
CompletedVideos(days) ==
  IF days = << >> THEN 0
  ELSE (IF Head(days).completed THEN Len(Head(days).videos) ELSE 0)
         + CompletedVideos(Tail(days))

RECURSIVE CompletedDays(_)
CompletedDays(days) ==
  IF days = << >> THEN 0
  ELSE (IF Head(days).completed THEN 1 ELSE 0) + CompletedDays(Tail(days))

\* overlay.js lines 499-508: the percentage of a plan of the list
ListPercent(p) ==
  IF p.totalVideos > 0
  THEN RoundPercent(CompletedVideos(p.planData), p.totalVideos)
  ELSE 0

\* overlay.js lines 740-745: the percentage of the progress bar
BarPercent(days) == RoundPercent(CompletedDays(days), Len(days))

AllCompleted(days) == \A d \in DOMAIN days : days[d].completed

\* the progress bar is within 0..100, and at 100 exactly when all is done
BarInRange ==
  state.plan # << >> =>
    /\ BarPercent(state.plan) \in 0..100
    /\ BarPercent(state.plan) = 100 <=> AllCompleted(state.plan)

\* C29: progress percentages stay in range. For every plan of the list and
\* for the displayed plan, whatever days are marked, the percentage is
\* between 0 and 100 and is 100 exactly when every day is completed.
C29_PercentInRange ==
  /\ BarInRange
  /\ \A k \in DOMAIN state.plansCache :
       LET p == state.plansCache[k]
       IN  p.planData # << >> =>
             /\ ListPercent(p) \in 0..100
             /\ ListPercent(p) = 100 <=> AllCompleted(p.planData)

\* 11 to 99 characters of [a-zA-Z0-9_-]
WellFormed(id) ==
  /\ id # Undefined
  /\ id.wordChars
  /\ id.len >= 11
  /\ id.len <= 99

\* ten requests of the client let through lie in the window
Limited(req) ==
  AcceptedIn(ClientIp(req), now - WindowMs, now) >= MAX_REQUESTS_PER_MINUTE

\* the playlist of the request is in the cache and has not expired
Cached(req) == CacheGet(cache, PlaylistIdOf(req).name, now) # Undefined

\* C30: validation order of the backend. A request is checked in the order
\* rate limit, presence of playlistId, format of playlistId, cache, API key:
\* a request over the limit is answered 429 whatever it carries; a request
\* let through whose playlistId is missing or is not 11 to 99 characters of
\* [a-zA-Z0-9_-] is answered 400, the cache is neither read nor written and
\* nothing is fetched; a request let through with a cached playlist is
\* answered 200 with the cached data whether or not an API key is set; only
\* after a cache miss does a missing API key give 500.
C30_ValidationOrder ==
  [][ \A req \in Requests :
        (req.method # "OPTIONS" /\ Handle(req)) =>
          /\ Limited(req) =>
                /\ response'.status = 429
                /\ ~ cacheRead'
                /\ pending' = pending
          /\ (~ Limited(req) /\ ~ WellFormed(PlaylistIdOf(req))) =>
                /\ response'.status = 400
                /\ response'.id = requests'
                /\ ~ cacheRead'
                /\ cache' = cache
                /\ pending' = pending
                /\ fetched' = fetched
          /\ (~ Limited(req) /\ WellFormed(PlaylistIdOf(req))) =>
                /\ cacheRead'
                /\ Cached(req) =>
                     /\ response'.status = 200
                     /\ response'.id = requests'
                     /\ response'.body = CacheGet(cache, PlaylistIdOf(req).name, now)
                     /\ ~ response'.fetch
                     /\ pending' = pending
                /\ (~ Cached(req) /\ ~ apiKey) =>
                     /\ response'.status = 500
                     /\ pending' = pending
                /\ (~ Cached(req) /\ apiKey) =>
                     /\ Cardinality(pending') = Cardinality(pending) + 1
                     /\ response' = response ]_vars

\* the last request was answered 200 from the cache while no API key is set
C30_Witness ==
  /\ response.id = requests
  /\ response.status = 200
  /\ ~ response.fetch
  /\ cacheRead
  /\ ~ apiKey
  /\ pending = {}

\* the last request was answered 400 while a playlist is cached and an API
\* key is set
C30_WitnessInvalid ==
  /\ response.id = requests
  /\ response.status = 400
  /\ ~ cacheRead
  /\ cache # EmptyMap
  /\ apiKey

\* the last request was over the limit and was answered 429
C30_WitnessLimited ==
  /\ response.id = requests
  /\ response.status = 429
  /\ requests = PriorRequests + MaxValidated

TypeOK ==
  /\ pc \in { "call", "for", "while", "tail", "done" }
  /\ thrown = "none"
  /\ i \in 0..MaxVideos
  /\ Len(plan) <= MaxDays

====
